---- MODULE Spec2Model ----
(***************************************************************************)
(* Model of the python-trainer package of factory-ml-offline-system.       *)
(*                                                                         *)
(*   DataLoader   (trainer/data_loader.py)   schema validation of a table  *)
(*   ModelTrainer (trainer/model_trainer.py) load / preprocess / train /   *)
(*                                           save and run                  *)
(*                                                                         *)
(* Every public method is one action.  The outcome of a call (normal       *)
(* return or the exception raised) is recorded in the variable holding the *)
(* last call, together with the part of the state the call started from.   *)
(***************************************************************************)
EXTENDS Integers, Sequences, FiniteSets, TLC

(***************************************************************************)
(* Bounds of the explored inputs.                                          *)
(***************************************************************************)
NumCols == 2
MaxSchemaLen == 2
MaxPipelines == 2
MaxFeatures == 3
MaxRows == 2
MaxLabels == 2
MaxContents == 2

(***************************************************************************)
(* Tables (pandas DataFrame).  Column labels that are strings are the      *)
(* numbers 1..NumCols; nonStr tells that the table also carries a label    *)
(* that is not a string (read_excel yields such labels for numeric header  *)
(* cells), which no schema name equals.  nulls are the columns holding at  *)
(* least one null value.  Labels are unique, as read_csv and read_excel    *)
(* make them.                                                              *)
(***************************************************************************)
ColNames == 1..NumCols

Tables ==
  { t \in [cols : SUBSET ColNames, nulls : SUBSET ColNames, nonStr : BOOLEAN] :
      t.nulls \subseteq t.cols }

EmptyTable == [cols |-> {}, nulls |-> {}, nonStr |-> FALSE]

(***************************************************************************)
(* Schemas: schema['columns'], a list of {name, required}.                 *)
(***************************************************************************)
ColumnSpecs == [name : ColNames, required : BOOLEAN]

Schemas ==
  { s \in UNION { [1..n -> ColumnSpecs] : n \in 0..MaxSchemaLen } :
      \A i, j \in DOMAIN s : i # j => s[i].name # s[j].name }

(***************************************************************************)
(* File paths, as sequences of characters.                                 *)
(***************************************************************************)
DataPaths ==
  { <<"a", ".", "c", "s", "v">>,
    <<"a", ".", "x", "l", "s">>,
    <<"a", ".", "x", "l", "s", "x">>,
    <<"a", ".", "t", "x", "t">>,
    <<"a", ".", "C", "S", "V">>,
    <<"a", "c", "s", "v">>,
    <<"a", ".", "c", "s", "v", ".", "b">>,
    <<"a">> }

SuffixCsv == <<".", "c", "s", "v">>
SuffixXls == <<".", "x", "l", "s">>
SuffixXlsx == <<".", "x", "l", "s", "x">>

\* str.endswith
EndsWith(p, suffix) ==
  /\ Len(p) >= Len(suffix)
  /\ SubSeq(p, Len(p) - Len(suffix) + 1, Len(p)) = suffix

(***************************************************************************)
(* What a read of the data file finds: no file, or a table.  read_csv      *)
(* labels every column with a string; read_excel keeps a numeric header    *)
(* cell as a number.                                                       *)
(***************************************************************************)
NoDataFile == [exists |-> FALSE, table |-> EmptyTable]

DataFiles(path) ==
  { NoDataFile }
  \cup { [exists |-> TRUE, table |-> t] :
           t \in { u \in Tables : EndsWith(path, SuffixCsv) => ~u.nonStr } }

(***************************************************************************)
(* Exceptions.  An outcome is "returned" or the name of the raise          *)
(* statement that ended the call; ExcType is its Python class.             *)
(***************************************************************************)
ExcType(out) ==
  CASE out \in {"UnsupportedFormat", "MissingColumn", "NullValues",
                "PipelineNotInitialized", "NoModel"} -> "ValueError"
    [] out \in {"DataFileNotFound", "TrainingDataMissing", "MakedirsError"}
         -> "FileNotFoundError"
    [] out = "JoinTypeError" -> "TypeError"
    [] out = "KeyError" -> "KeyError"
    [] out = "FitError" -> "Exception"
    [] out \in {"ConfigNotFound", "SchemaNotFound"} -> "FileNotFoundError"
    [] out \in {"ConfigInvalidJson", "SchemaInvalidJson", "NoTrainingSection",
                "CsvParseError", "TransformError"} -> "ValueError"
    [] out \in {"NotIterableTypeError", "IndexTypeError"} -> "TypeError"
    [] out = "AttributeError" -> "AttributeError"
    [] out = "PermissionError" -> "PermissionError"
    [] out = "WriteError" -> "OSError"
    [] out \in {"LengthMismatch", "InconsistentSamples", "EmptyInput"} -> "ValueError"
    [] OTHER -> "none"

(***************************************************************************)
(* DataLoader.validate_data: the loop over schema['columns'] from index i. *)
(* examined lists the schema columns looked at, in order.                  *)
(***************************************************************************)
RECURSIVE ValidateFrom(_, _, _, _)
ValidateFrom(s, data, i, examined) ==
  IF i > Len(s)
  THEN [out |-> "returned", errCol |-> 0, examined |-> examined]
  ELSE LET column == s[i]
           seen   == Append(examined, column.name)
       IN IF column.name \notin data.cols
          THEN \* the message joins data.columns, which fails on a label
               \* that is not a string before the ValueError is built
               IF data.nonStr
               THEN [out |-> "JoinTypeError", errCol |-> column.name,
                     examined |-> seen]
               ELSE [out |-> "MissingColumn", errCol |-> column.name,
                     examined |-> seen]
          ELSE IF column.required /\ column.name \in data.nulls
          THEN [out |-> "NullValues", errCol |-> column.name, examined |-> seen]
          ELSE ValidateFrom(s, data, i + 1, seen)

\* mutant of validate_data: the loop misses the first schema column
validate_dataFromSecond(s, data) == ValidateFrom(s, data, 2, <<>>)

\* mutant of validate_data: the schema columns are visited last to first
validate_dataReversed(s, data) ==
  ValidateFrom([i \in 1..Len(s) |-> s[Len(s) + 1 - i]], data, 1, <<>>)

validate_data(s, data) == ValidateFrom(s, data, 1, <<>>)

(***************************************************************************)
(* DataLoader.load_data.                                                   *)
(***************************************************************************)
NotValidated == [out |-> "none", errCol |-> 0, examined |-> <<>>]

\* mutant of Readable: the suffix is looked for anywhere in the path
ReadableAnywhere(path) ==
  \E i \in 1..Len(path) :
    \E suffix \in {SuffixCsv, SuffixXls, SuffixXlsx} :
      /\ i + Len(suffix) - 1 <= Len(path)
      /\ SubSeq(path, i, i + Len(suffix) - 1) = suffix

\* the conditions of the two read branches
Readable(path) ==
  EndsWith(path, SuffixCsv)
    \/ EndsWith(path, SuffixXls) \/ EndsWith(path, SuffixXlsx)

\* mutant of load_data: the table is returned without being validated
load_dataUnvalidated(s, path, file) ==
  IF Readable(path)
  THEN IF ~file.exists
       THEN [read |-> TRUE, validated |-> FALSE, table |-> EmptyTable,
             v |-> [NotValidated EXCEPT !.out = "DataFileNotFound"]]
       ELSE [read |-> TRUE, validated |-> FALSE, table |-> file.table,
             v |-> [NotValidated EXCEPT !.out = "returned"]]
  ELSE [read |-> FALSE, validated |-> FALSE, table |-> EmptyTable,
        v |-> [NotValidated EXCEPT !.out = "UnsupportedFormat"]]

load_data(s, path, file) ==
  IF Readable(path)
  THEN IF ~file.exists
       THEN [read |-> TRUE, validated |-> FALSE, table |-> EmptyTable,
             v |-> [NotValidated EXCEPT !.out = "DataFileNotFound"]]
       ELSE [read |-> TRUE, validated |-> TRUE, table |-> file.table,
             v |-> validate_data(s, file.table)]
  ELSE [read |-> FALSE, validated |-> FALSE, table |-> EmptyTable,
        v |-> [NotValidated EXCEPT !.out = "UnsupportedFormat"]]

(***************************************************************************)
(* ModelTrainer.  The trainer's fields and the part of the file system it  *)
(* writes are one record st:                                               *)
(*   objs      the Pipeline objects created so far; an object is known by  *)
(*             its index, 0 stands for None                                *)
(*   pipeline  self.pipeline                                               *)
(*   model     self.model                                                  *)
(*   dirs      the directories that exist                                  *)
(*   files     what each model path holds                                  *)
(* A model path is the sequence of its components; a configuration is the  *)
(* mapping from the keys it has to their values.                           *)
(***************************************************************************)
ConfigKeys == {"numerical_features", "categorical_features", "target"}

FeatureChoices ==
  { [num |-> {1}, cat |-> {}, target |-> 2],
    [num |-> {}, cat |-> {1}, target |-> 2],
    [num |-> {1}, cat |-> {2}, target |-> 2] }

Configs ==
  { [k \in d |-> CASE k = "numerical_features" -> c.num
                   [] k = "categorical_features" -> c.cat
                   [] OTHER -> c.target] :
      d \in SUBSET ConfigKeys, c \in FeatureChoices }

ModelPaths ==
  { <<"model.joblib">>,
    <<"models", "model.joblib">>,
    <<"models", "current", "model.joblib">> }

\* os.path.dirname
dirname(path) == SubSeq(path, 1, Len(path) - 1)

\* the directories os.makedirs(d, exist_ok=True) leaves in existence
makedirs(dirs, d) == dirs \cup { SubSeq(d, 1, n) : n \in 1..Len(d) }

PipelineSteps == <<"preprocessor", "classifier">>

\* Pipeline(steps=[('preprocessor', ...), ('classifier', ...)]), not fitted
NewPipeline == [steps |-> PipelineSteps, fit |-> "unfitted"]

NoFile == [exists |-> FALSE, obj |-> 0, steps |-> <<>>, fit |-> "none"]

\* what joblib.dump writes for object o
Dump(st, o) ==
  [exists |-> TRUE, obj |-> o, steps |-> st.objs[o].steps, fit |-> st.objs[o].fit]

\* How Pipeline.fit ends: fitted, or an exception raised before any step
\* was fitted, or one raised after the first step had been fitted in place.
FitResults == {"fitted", "failed", "failedPartway"}

\* The training files: ModelTrainer reads the column labels of its data
\* and hands the values to the library, so the tables differ in labels only.
TrainTables == { t \in Tables : t.nulls = {} /\ ~t.nonStr }

TrainFiles ==
  { NoDataFile }
  \cup { [exists |-> TRUE, table |-> t] : t \in TrainTables }

\* ModelTrainer.load_data
trainer_load_data(file) ==
  IF ~file.exists
  THEN [out |-> "TrainingDataMissing", data |-> EmptyTable]
  ELSE [out |-> "returned", data |-> file.table]

\* ModelTrainer.preprocess_data
preprocess_data(st, cfg, data) ==
  IF "numerical_features" \notin DOMAIN cfg
  THEN [st |-> st, out |-> "KeyError"]
  ELSE IF "categorical_features" \notin DOMAIN cfg
  THEN [st |-> st, out |-> "KeyError"]
  ELSE LET st1 == [st EXCEPT !.objs = Append(@, NewPipeline),
                             !.pipeline = Len(st.objs) + 1]
       IN IF ~((cfg["numerical_features"] \cup cfg["categorical_features"])
                 \subseteq data.cols)
          THEN [st |-> st1, out |-> "KeyError"]
          ELSE IF "target" \notin DOMAIN cfg
          THEN [st |-> st1, out |-> "KeyError"]
          ELSE IF cfg["target"] \notin data.cols
          THEN [st |-> st1, out |-> "KeyError"]
          ELSE [st |-> st1, out |-> "returned"]

\* self.pipeline.fit(X, y) on the object self.pipeline names
Fit(st, fit) ==
  CASE fit = "fitted" ->
         [st |-> [st EXCEPT !.objs[st.pipeline].fit = "fitted",
                            !.model = st.pipeline],
          out |-> "returned"]
    [] fit = "failedPartway" ->
         [st |-> [st EXCEPT !.objs[st.pipeline].fit = "partial"],
          out |-> "FitError"]
    [] OTHER -> [st |-> st, out |-> "FitError"]

\* mutant of train_model: the guard on self.pipeline is missing, and the
\* call on None raises an AttributeError
train_modelUnguarded(st, fit) ==
  IF st.pipeline = 0
  THEN [st |-> st, out |-> "AttributeError"]
  ELSE Fit(st, fit)

\* ModelTrainer.train_model
train_model(st, fit) ==
  IF st.pipeline = 0
  THEN [st |-> st, out |-> "PipelineNotInitialized"]
  ELSE Fit(st, fit)

\* mutant of save_model: self.pipeline is written instead of self.model
save_modelDumpsPipeline(st, path) ==
  IF st.model = 0
  THEN [st |-> st, out |-> "NoModel"]
  ELSE IF dirname(path) = <<>>
  THEN [st |-> st, out |-> "MakedirsError"]
  ELSE [st |-> [st EXCEPT !.dirs = makedirs(@, dirname(path)),
                          !.files[path] = Dump(st, st.pipeline)],
        out |-> "returned"]

\* mutant of save_model: the directory is made before the model is checked
save_modelMakesDirFirst(st, path) ==
  IF dirname(path) = <<>>
  THEN [st |-> st, out |-> "MakedirsError"]
  ELSE IF st.model = 0
  THEN [st |-> [st EXCEPT !.dirs = makedirs(@, dirname(path))], out |-> "NoModel"]
  ELSE [st |-> [st EXCEPT !.dirs = makedirs(@, dirname(path)),
                          !.files[path] = Dump(st, st.model)],
        out |-> "returned"]

\* ModelTrainer.save_model; os.makedirs('') raises FileNotFoundError
save_model(st, path) ==
  IF st.model = 0
  THEN [st |-> st, out |-> "NoModel"]
  ELSE IF dirname(path) = <<>>
  THEN [st |-> st, out |-> "MakedirsError"]
  ELSE [st |-> [st EXCEPT !.dirs = makedirs(@, dirname(path)),
                          !.files[path] = Dump(st, st.model)],
        out |-> "returned"]

\* mutant of run: preprocess_data is not called, the pipeline at hand is used
runSkipsPreprocess(st, cfg, file, path, fit) ==
  LET l == trainer_load_data(file)
      t == train_model(st, fit)
      s == save_model(t.st, path)
  IN IF l.out # "returned"
     THEN [st |-> st, out |-> l.out, fitted |-> FALSE,
           trace |-> <<"load_data">>]
     ELSE IF t.out # "returned"
     THEN [st |-> t.st, out |-> t.out, fitted |-> FALSE,
           trace |-> <<"load_data", "train_model">>]
     ELSE [st |-> s.st, out |-> s.out, fitted |-> TRUE,
           trace |-> <<"load_data", "train_model", "save_model">>]

\* mutant of run: a failed fit is passed over and save_model is still called
runSavesAfterFailedFit(st, cfg, file, path, fit) ==
  LET l == trainer_load_data(file)
      p == preprocess_data(st, cfg, l.data)
      t == train_model(p.st, fit)
      s == save_model(t.st, path)
  IN IF l.out # "returned"
     THEN [st |-> st, out |-> l.out, fitted |-> FALSE,
           trace |-> <<"load_data">>]
     ELSE IF p.out # "returned"
     THEN [st |-> p.st, out |-> p.out, fitted |-> FALSE,
           trace |-> <<"load_data", "preprocess_data">>]
     ELSE [st |-> s.st, out |-> s.out, fitted |-> (t.out = "returned"),
           trace |-> <<"load_data", "preprocess_data", "train_model",
                       "save_model">>]

\* mutant of run: the pipeline is built before the data is loaded
runPreprocessesFirst(st, cfg, file, path, fit) ==
  LET p == preprocess_data(st, cfg, file.table)
      l == trainer_load_data(file)
      t == train_model(p.st, fit)
      s == save_model(t.st, path)
  IN IF p.out # "returned"
     THEN [st |-> p.st, out |-> p.out, fitted |-> FALSE,
           trace |-> <<"preprocess_data">>]
     ELSE IF l.out # "returned"
     THEN [st |-> p.st, out |-> l.out, fitted |-> FALSE,
           trace |-> <<"preprocess_data", "load_data">>]
     ELSE IF t.out # "returned"
     THEN [st |-> t.st, out |-> t.out, fitted |-> FALSE,
           trace |-> <<"preprocess_data", "load_data", "train_model">>]
     ELSE [st |-> s.st, out |-> s.out, fitted |-> (t.out = "returned"),
           trace |-> <<"preprocess_data", "load_data", "train_model",
                       "save_model">>]

\* ModelTrainer.run; trace lists the methods entered, the last one being
\* the one whose outcome is the outcome of run
run(st, cfg, file, path, fit) ==
  LET l == trainer_load_data(file)
      p == preprocess_data(st, cfg, l.data)
      t == train_model(p.st, fit)
      s == save_model(t.st, path)
  IN IF l.out # "returned"
     THEN [st |-> st, out |-> l.out, fitted |-> FALSE,
           trace |-> <<"load_data">>]
     ELSE IF p.out # "returned"
     THEN [st |-> p.st, out |-> p.out, fitted |-> FALSE,
           trace |-> <<"load_data", "preprocess_data">>]
     ELSE IF t.out # "returned"
     THEN [st |-> t.st, out |-> t.out, fitted |-> FALSE,
           trace |-> <<"load_data", "preprocess_data", "train_model">>]
     ELSE [st |-> s.st, out |-> s.out, fitted |-> (t.out = "returned"),
           trace |-> <<"load_data", "preprocess_data", "train_model",
                       "save_model">>]

\* ModelTrainer.__init__, with the directories found on disk
NewTrainer(dirs) ==
  [objs |-> <<>>, pipeline |-> 0, model |-> 0, dirs |-> dirs,
   files |-> [p \in ModelPaths |-> NoFile]]

(***************************************************************************)
(* trainer/main.py.  A JSON file is missing, unreadable, malformed, or     *)
(* holds a document; value is what json.load makes of the document.        *)
(*                                                                         *)
(* A configuration document: kind is the type of its top level; has is     *)
(* the result of ('training' in value) where that test is defined (a key   *)
(* of an object, an element of an array, a substring of a string);         *)
(* dictTraining tells that value['training'] is an object, and training    *)
(* is that object.                                                         *)
(* A schema document: hasColumns tells that it has the key 'columns', and  *)
(* columns is that list.                                                   *)
(***************************************************************************)
EmptyConfig == [k \in {} |-> {}]

MainConfigs ==
  { [k \in d |-> CASE k = "numerical_features" -> {1}
                   [] k = "categorical_features" -> {}
                   [] OTHER -> 2] : d \in SUBSET ConfigKeys }

ConfigValues ==
  { [kind |-> "object", has |-> TRUE, dictTraining |-> TRUE, training |-> c] :
      c \in MainConfigs }
  \cup { [kind |-> "object", has |-> h, dictTraining |-> FALSE,
          training |-> EmptyConfig] : h \in BOOLEAN }
  \cup { [kind |-> k, has |-> h, dictTraining |-> FALSE,
          training |-> EmptyConfig] : k \in {"array", "string"}, h \in BOOLEAN }
  \cup { [kind |-> "number", has |-> FALSE, dictTraining |-> FALSE,
          training |-> EmptyConfig] }

NoConfigValue ==
  [kind |-> "none", has |-> FALSE, dictTraining |-> FALSE, training |-> EmptyConfig]

SchemaValues ==
  { [hasColumns |-> TRUE, columns |-> s] : s \in Schemas }
  \cup { [hasColumns |-> FALSE, columns |-> <<>>] }

NoSchemaValue == [hasColumns |-> FALSE, columns |-> <<>>]

FileStates == {"missing", "unreadable", "malformed", "json"}

ConfigFiles ==
  { [state |-> st, value |-> NoConfigValue] : st \in FileStates \ {"json"} }
  \cup { [state |-> "json", value |-> v] : v \in ConfigValues }

SchemaFiles ==
  { [state |-> st, value |-> NoSchemaValue] : st \in FileStates \ {"json"} }
  \cup { [state |-> "json", value |-> v] : v \in SchemaValues }

\* mutant of with_open: open and close without with, so that a raise in
\* the body passes the close by
open_then_close(opened, out) ==
  [opened |-> IF opened THEN 1 ELSE 0,
   closed |-> IF opened /\ out = "returned" THEN 1 ELSE 0]

\* with open(...) as f: body.  The handles opened and closed by the
\* statement when open succeeded or not (opened) and the statement ended
\* with out: __exit__ closes the file on return and on raise.
with_open(opened, out) ==
  [opened |-> IF opened THEN 1 ELSE 0, closed |-> IF opened THEN 1 ELSE 0]

\* the handles a with statement leaves open
Leaked(io) == io.opened - io.closed

\* load_config: open, json.load and the two except clauses; open raises for
\* a missing or unreadable file, json.load raises inside the with statement
load_config(file) ==
  LET opened == file.state \in {"malformed", "json"}
  IN CASE file.state = "missing" ->
            [out |-> "ConfigNotFound", value |-> NoConfigValue,
             io |-> with_open(opened, "ConfigNotFound")]
       [] file.state = "unreadable" ->
            [out |-> "PermissionError", value |-> NoConfigValue,
             io |-> with_open(opened, "PermissionError")]
       [] file.state = "malformed" ->
            [out |-> "ConfigInvalidJson", value |-> NoConfigValue,
             io |-> with_open(opened, "ConfigInvalidJson")]
       [] OTHER ->
            [out |-> "returned", value |-> file.value,
             io |-> with_open(opened, "returned")]

\* load_schema
load_schema(file) ==
  LET opened == file.state \in {"malformed", "json"}
  IN CASE file.state = "missing" ->
            [out |-> "SchemaNotFound", value |-> NoSchemaValue,
             io |-> with_open(opened, "SchemaNotFound")]
       [] file.state = "unreadable" ->
            [out |-> "PermissionError", value |-> NoSchemaValue,
             io |-> with_open(opened, "PermissionError")]
       [] file.state = "malformed" ->
            [out |-> "SchemaInvalidJson", value |-> NoSchemaValue,
             io |-> with_open(opened, "SchemaInvalidJson")]
       [] OTHER ->
            [out |-> "returned", value |-> file.value,
             io |-> with_open(opened, "returned")]

\* mutant of training_section: the test for 'training' is left out
training_sectionUnchecked(c) ==
  IF c.kind = "number" THEN "NotIterableTypeError"
  ELSE IF c.kind # "object" THEN "IndexTypeError"
  ELSE IF ~c.dictTraining THEN "AttributeError"
  ELSE "returned"

\* main, lines 197-208: the test for the 'training' section, the lookup
\* config['training'] and the training_config.get calls of the log lines
training_section(c) ==
  IF c.kind = "number" THEN "NotIterableTypeError"
  ELSE IF ~c.has THEN "NoTrainingSection"
  ELSE IF c.kind # "object" THEN "IndexTypeError"
  ELSE IF ~c.dictTraining THEN "AttributeError"
  ELSE "returned"

\* main, lines 215-216: DataLoader(schema).load_data(args.data); a schema
\* without 'columns' fails in validate_data, once the file has been read
main_load_data(sv, path, file) ==
  LET r == load_data(sv.columns, path, file)
  IN IF r.validated /\ ~sv.hasColumns
     THEN [r EXCEPT !.v = [NotValidated EXCEPT !.out = "KeyError"]]
     ELSE r

\* main, lines 229-232: Preprocessor(schema).fit_transform(data) returns,
\* or a column of the schema has no 'type', or the library rejects the data
PrepResults == {"returned", "KeyError", "TransformError"}

OutputDirs == { <<>>, <<"models">>, <<"models", "current">> }

MainDataPaths ==
  { <<"a", ".", "c", "s", "v">>,
    <<"a", ".", "x", "l", "s", "x">>,
    <<"a", ".", "t", "x", "t">> }

\* output_dir / 'model.joblib'; Path('.') / 'model.joblib' is 'model.joblib'
model_path(outdir) == Append(outdir, "model.joblib")

\* output_dir / 'reports' / 'training_summary.json'
report_dir(outdir) == Append(outdir, "reports")

report_path(outdir) == Append(report_dir(outdir), "training_summary.json")

\* main, lines 293-295: opening the summary for writing returns or is refused
ReportResults == { "returned", "PermissionError" }

\* How writing a file ends: written, open refused, or a raise in the body
\* of the with statement after open has created or truncated the file.
WriteResults == { "returned", "PermissionError", "WriteError" }

\* main, lines 293-295: with open(report_path, 'w') as f: json.dump(...)
write_summary(res) ==
  [out |-> res, io |-> with_open(res # "PermissionError", res)]

\* main, lines 248-250: ModelTrainer(training_config).run(args.data, model_path)
\* on the directories left by output_dir.mkdir; ModelTrainer.load_data reads
\* the file with read_csv whatever its suffix, which fails on an Excel file
main_train(dirs, cfg, path, file, outdir, fit) ==
  LET st == NewTrainer(makedirs(dirs, outdir))
  IN IF file.exists /\ ~EndsWith(path, SuffixCsv)
     THEN [st |-> st, out |-> "CsvParseError", fitted |-> FALSE,
           trace |-> <<"load_data">>]
     ELSE run(st, cfg, file, model_path(outdir), fit)

\* mutant of Summary: the path of a converted model is reported
SummaryWithOnnxPath(outdir, cfg) ==
  [model_path |-> model_path(outdir), onnx_path |-> "model.onnx",
   training_config |-> cfg]

\* main, lines 286-291: the summary written with --report
Summary(outdir, cfg) ==
  [model_path |-> model_path(outdir), onnx_path |-> "null",
   training_config |-> cfg]

\* mutant of Handler: the clause for Exception is left out
HandlerWithoutCatchAll(out) ==
  CASE ExcType(out) = "FileNotFoundError" -> "FileNotFoundError"
    [] ExcType(out) = "ValueError" -> "ValueError"
    [] OTHER -> "none"

\* the except clause that takes an exception
Handler(out) ==
  CASE ExcType(out) = "FileNotFoundError" -> "FileNotFoundError"
    [] ExcType(out) = "ValueError" -> "ValueError"
    [] OTHER -> "Exception"

(***************************************************************************)
(* trainer/onnx_converter.py.  A model is described by what save_onnx_model *)
(* asks of it: whether it has the attribute steps and how many steps there  *)
(* are, whether the estimator of the first step has n_features_in_ and its  *)
(* value, and whether the model itself has n_features_in_ and its value.    *)
(***************************************************************************)
DefaultWidth == 10

Widths == 1..MaxFeatures

OnnxModels ==
  { m \in [hasSteps : BOOLEAN, nsteps : 0..2, firstHas : BOOLEAN,
           firstN : Widths, ownHas : BOOLEAN, ownN : Widths] :
      /\ ~m.hasSteps => m.nsteps = 0
      /\ m.nsteps = 0 => ~m.firstHas
      /\ ~m.firstHas => m.firstN = 1
      /\ ~m.ownHas => m.ownN = 1 }

NoOnnxModel ==
  [hasSteps |-> FALSE, nsteps |-> 0, firstHas |-> FALSE, firstN |-> 1,
   ownHas |-> FALSE, ownN |-> 1]

OnnxDirs == { <<"models">>, <<"models", "current">> }

ModelNames == { "defect_classifier" }

\* os.path.join(output_dir, f"{model_name}.onnx")
onnx_path(output_dir, model_name) ==
  [dir |-> output_dir, stem |-> model_name, ext |-> "onnx"]

OnnxPaths == { onnx_path(d, n) : d \in OnnxDirs, n \in ModelNames }

\* How convert_model_to_onnx ends: the file is written, convert_sklearn
\* rejects the model and no file is opened, or f.write raises.  Called with
\* a path in a directory that does not exist, open raises FileNotFoundError.
ConvertResults == { "returned", "ConversionError", "WriteError" }

\* mutant of n_features: the width is always asked of the model itself
n_featuresOfModel(model) ==
  IF model.ownHas THEN model.ownN ELSE DefaultWidth

\* save_onnx_model, lines 119-130
n_features(model) ==
  IF model.hasSteps /\ model.nsteps > 0
  THEN IF model.firstHas THEN model.firstN ELSE DefaultWidth
  ELSE IF model.ownHas THEN model.ownN ELSE DefaultWidth

\* save_onnx_model, lines 133-135
initial_types(n) ==
  << [name |-> "float_input", type |-> "FloatTensorType",
      shape |-> [batch |-> "None", width |-> n]] >>

NoOnnxFile == [exists |-> FALSE, inputs |-> <<>>]

NewOnnxDisk(dirs) == [dirs |-> dirs, files |-> [p \in OnnxPaths |-> NoOnnxFile]]

\* convert_model_to_onnx: the files after the call; open(model_path, "wb")
\* empties the file, and a write that raises leaves it without a model
convert_model_to_onnx(files, path, types, conv) ==
  [files |-> CASE conv = "returned" ->
                    [files EXCEPT ![path] = [exists |-> TRUE, inputs |-> types]]
               [] conv = "WriteError" ->
                    [files EXCEPT ![path] = [exists |-> TRUE, inputs |-> <<>>]]
               [] OTHER -> files,
   out |-> conv,
   io |-> with_open(conv \in {"returned", "WriteError"}, conv)]

\* save_onnx_model: the disk after the call, the declared inputs, how the
\* call ended and the path it returned
save_onnx_model(disk, model, output_dir, model_name, conv) ==
  LET made == IF output_dir \in disk.dirs THEN disk.dirs
              ELSE makedirs(disk.dirs, output_dir)
      path == onnx_path(output_dir, model_name)
      types == initial_types(n_features(model))
      c == convert_model_to_onnx(disk.files, path, types, conv)
  IN [disk |-> [dirs |-> made, files |-> c.files],
      types |-> types, out |-> c.out, path |-> path, io |-> c.io]

(***************************************************************************)
(* analysis/drift_detector.py.  A dataset has columns, a number of rows    *)
(* and in each column one value per row.                                   *)
(***************************************************************************)
DriftColumns == { "temperature", "pressure" }

CellValues == { 0, 1 }

Datasets ==
  UNION { [cols : {cs}, rows : {n}, val : [cs -> [1..n -> CellValues]]] :
            cs \in SUBSET DriftColumns, n \in 1..MaxRows }

NoDataset == [cols |-> {}, rows |-> 1, val |-> [c \in {} |-> <<>>]]

Count(x, a) == Cardinality({ i \in DOMAIN x : x[i] = a })

Joint(x, y, a, b) == Cardinality({ i \in DOMAIN x : x[i] = a /\ y[i] = b })

\* sklearn.metrics.mutual_info_score(x, y): ValueError for label vectors of
\* different lengths; otherwise the mutual information of the two
\* labellings, which is never negative and is zero exactly when they are
\* independent, i.e. n * n(a,b) = n(a) * n(b) for all labels a, b.  The
\* score is given by its sign.
mutual_info_score(x, y) ==
  IF Len(x) # Len(y) THEN "ValueError"
  ELSE IF \A a \in CellValues, b \in CellValues :
            Len(x) * Joint(x, y, a, b) = Count(x, a) * Count(y, b)
  THEN "zero"
  ELSE "positive"

\* DriftDetector._calculate_drift_score
calculate_drift_score(ref, cur, column) ==
  mutual_info_score(ref.val[column], cur.val[column])

\* mutant of detect_drift: a column of the reference data that the current
\* data lacks is scored as well
detect_driftAllReference(ref, cur) ==
  LET scored == ref.cols \cap cur.cols
  IN IF \E c \in scored : calculate_drift_score(ref, cur, c) = "ValueError"
     THEN [out |-> "ValueError", results |-> [c \in {} |-> "zero"]]
     ELSE [out |-> "returned",
           results |-> [c \in ref.cols |->
                          IF c \in scored
                          THEN calculate_drift_score(ref, cur, c)
                          ELSE "zero"]]

\* DriftDetector.detect_drift: the scores of the columns of the reference
\* data that the current data has too; the exception of a score ends the
\* call
detect_drift(ref, cur) ==
  LET scored == { c \in ref.cols : c \in cur.cols }
  IN IF \E c \in scored : calculate_drift_score(ref, cur, c) = "ValueError"
     THEN [out |-> "ValueError", results |-> [c \in {} |-> "zero"]]
     ELSE [out |-> "returned",
           results |-> [c \in scored |-> calculate_drift_score(ref, cur, c)]]

\* DriftDetector.report_drift: the lines printed, one per score
report_drift(ref, cur) ==
  LET r == detect_drift(ref, cur)
  IN [out |-> r.out, results |-> r.results,
      printed |-> { [column |-> c, score |-> r.results[c]] :
                      c \in DOMAIN r.results }]

(***************************************************************************)
(* analysis/metrics_calculator.py.  Label vectors over two classes; a      *)
(* metric is the fraction num/den that sklearn computes, not reduced.      *)
(***************************************************************************)
Labels == { 0, 1 }

LabelSeqs == UNION { [1..n -> Labels] : n \in 0..MaxLabels }

MetricNames == { "accuracy", "precision", "recall", "f1_score" }

TP(yt, yp, c) == Joint(yt, yp, c, c)

\* a denominator, with the zero_division rule: a term 0/0 counts as 0
Den(k) == IF k = 0 THEN 1 ELSE k

\* accuracy_score(y_true, y_pred)
accuracy_score(yt, yp) ==
  [num |-> TP(yt, yp, 0) + TP(yt, yp, 1), den |-> Len(yt)]

\* precision_score(y_true, y_pred, average='weighted'): the precision
\* TP/predicted of each class, weighted by the class's share of y_true
precision_score(yt, yp) ==
  [num |-> Count(yt, 0) * TP(yt, yp, 0) * Den(Count(yp, 1))
           + Count(yt, 1) * TP(yt, yp, 1) * Den(Count(yp, 0)),
   den |-> Len(yt) * Den(Count(yp, 0)) * Den(Count(yp, 1))]

\* recall_score(y_true, y_pred, average='weighted'): the recall TP/support
\* of each class, weighted by the class's share of y_true
recall_score(yt, yp) ==
  [num |-> Count(yt, 0) * TP(yt, yp, 0) * Den(Count(yt, 1))
           + Count(yt, 1) * TP(yt, yp, 1) * Den(Count(yt, 0)),
   den |-> Len(yt) * Den(Count(yt, 0)) * Den(Count(yt, 1))]

\* f1_score(y_true, y_pred, average='weighted'): 2TP/(support + predicted)
\* of each class, weighted by the class's share of y_true
f1_score(yt, yp) ==
  LET d0 == Den(Count(yt, 0) + Count(yp, 0))
      d1 == Den(Count(yt, 1) + Count(yp, 1))
  IN [num |-> 2 * (Count(yt, 0) * TP(yt, yp, 0) * d1
                   + Count(yt, 1) * TP(yt, yp, 1) * d0),
      den |-> Len(yt) * d0 * d1]

Score(metric, yt, yp) ==
  CASE metric = "accuracy" -> accuracy_score(yt, yp)
    [] metric = "precision" -> precision_score(yt, yp)
    [] metric = "recall" -> recall_score(yt, yp)
    [] OTHER -> f1_score(yt, yp)

NoCalculator == [made |-> FALSE, y_true |-> <<>>, y_pred |-> <<>>]

NoMetrics == [m \in {} |-> [num |-> 0, den |-> 0]]

\* How sklearn treats vectors without samples: a ValueError, or a result
\* that is not a number.
EmptyResults == { "EmptyInput", "returned" }

\* mutant of MetricsCalculator: the lengths are not compared
MetricsCalculatorUnchecked(y_true, y_pred) ==
  [out |-> "returned",
   calc |-> [made |-> TRUE, y_true |-> y_true, y_pred |-> y_pred]]

\* MetricsCalculator.__init__
MetricsCalculator(y_true, y_pred) ==
  IF Len(y_true) # Len(y_pred)
  THEN [out |-> "LengthMismatch", calc |-> NoCalculator]
  ELSE [out |-> "returned",
        calc |-> [made |-> TRUE, y_true |-> y_true, y_pred |-> y_pred]]

\* the metrics named in names, as calculate_accuracy, calculate_precision,
\* calculate_recall and calculate_f1_score compute them; sklearn raises a
\* ValueError for vectors of different lengths
calculate(c, names, empty) ==
  IF Len(c.y_true) # Len(c.y_pred)
  THEN [out |-> "InconsistentSamples", result |-> NoMetrics]
  ELSE IF Len(c.y_true) = 0 /\ empty # "returned"
  THEN [out |-> empty, result |-> NoMetrics]
  ELSE [out |-> "returned",
        result |-> [m \in names |-> Score(m, c.y_true, c.y_pred)]]

\* MetricsCalculator.get_metrics
get_metrics(c, empty) == calculate(c, MetricNames, empty)

(***************************************************************************)
(* trainer/report_generator.py.  The three report files of one output      *)
(* directory.  What a writer is given is named by a number, the version of *)
(* the report; a file holds a version, completely or in part.              *)
(***************************************************************************)
ReportNames == <<"metrics.json", "shap_summary.html", "drift_report.html">>

ReportDirs == { <<"data", "output", "reports">> }

Contents == 1..MaxContents

NoReportFile == [exists |-> FALSE, complete |-> FALSE, v |-> 0]

Written(v) == [exists |-> TRUE, complete |-> TRUE, v |-> v]

Partial(v) == [exists |-> TRUE, complete |-> FALSE, v |-> v]

ReportFiles == { ReportNames[i] : i \in DOMAIN ReportNames }

NoReporter ==
  [made |-> FALSE, output_dir |-> <<>>, dirs |-> {},
   files |-> [n \in ReportFiles |-> NoReportFile]]

\* ReportGenerator.__init__
ReportGenerator(st, output_dir) ==
  [st EXCEPT !.made = TRUE, !.output_dir = output_dir,
             !.dirs = makedirs(@, output_dir)]

\* with open(report_path, 'w') as f: write version v.  open with mode 'w'
\* creates or empties the file; a raise in the body leaves it in part.
write_report(st, name, v, res) ==
  [st |-> CASE res = "returned" -> [st EXCEPT !.files[name] = Written(v)]
            [] res = "WriteError" -> [st EXCEPT !.files[name] = Partial(v)]
            [] OTHER -> st,
   out |-> res,
   io |-> with_open(res # "PermissionError", res)]

\* ReportGenerator.generate_metrics_report
generate_metrics_report(st, v, res) == write_report(st, ReportNames[1], v, res)

\* ReportGenerator.generate_shap_report
generate_shap_report(st, v, res) == write_report(st, ReportNames[2], v, res)

\* ReportGenerator.generate_drift_report
generate_drift_report(st, v, res) == write_report(st, ReportNames[3], v, res)

AddIo(a, b) ==
  [opened |-> a.opened + b.opened, closed |-> a.closed + b.closed]

\* mutant of save_report: when a writer raises, the files written by this
\* call are put back as they were
save_reportAllOrNothing(st, v, rs) ==
  LET m == generate_metrics_report(st, v, rs[1])
      h == generate_shap_report(m.st, v, rs[2])
      d == generate_drift_report(h.st, v, rs[3])
  IN IF m.out # "returned"
     THEN [st |-> st, out |-> m.out, entered |-> SubSeq(ReportNames, 1, 1),
           io |-> m.io]
     ELSE IF h.out # "returned"
     THEN [st |-> st, out |-> h.out, entered |-> SubSeq(ReportNames, 1, 2),
           io |-> AddIo(m.io, h.io)]
     ELSE IF d.out # "returned"
     THEN [st |-> st, out |-> d.out, entered |-> ReportNames,
           io |-> AddIo(AddIo(m.io, h.io), d.io)]
     ELSE [st |-> d.st, out |-> d.out, entered |-> ReportNames,
           io |-> AddIo(AddIo(m.io, h.io), d.io)]

\* ReportGenerator.save_report: the three writers in turn; rs[i] is how the
\* i-th write would end
save_report(st, v, rs) ==
  LET m == generate_metrics_report(st, v, rs[1])
      h == generate_shap_report(m.st, v, rs[2])
      d == generate_drift_report(h.st, v, rs[3])
  IN IF m.out # "returned"
     THEN [st |-> m.st, out |-> m.out, entered |-> SubSeq(ReportNames, 1, 1),
           io |-> m.io]
     ELSE IF h.out # "returned"
     THEN [st |-> h.st, out |-> h.out, entered |-> SubSeq(ReportNames, 1, 2),
           io |-> AddIo(m.io, h.io)]
     ELSE [st |-> d.st, out |-> d.out, entered |-> ReportNames,
           io |-> AddIo(AddIo(m.io, h.io), d.io)]

(***************************************************************************)
(* trainer/preprocessor.py.  A table keeps its columns in an order: cols   *)
(* are the labels from left to right and vals the columns themselves, one  *)
(* value per row.  Every table has two rows and every cell holds 0 or 1,   *)
(* for which the scaling below is exact.                                   *)
(***************************************************************************)
PrepSchemas ==
  { << [name |-> "temperature", type |-> "NUMERIC"],
       [name |-> "product_type", type |-> "CATEGORY"] >>,
    << [name |-> "product_type", type |-> "CATEGORY"],
       [name |-> "temperature", type |-> "NUMERIC"] >>,
    << [name |-> "product_type", type |-> "CATEGORY"],
       [name |-> "temperature", type |-> "CATEGORY"] >>,
    << [name |-> "temperature", type |-> "NUMERIC"],
       [name |-> "product_type", type |-> "TEXT"] >> }

ColumnOrders ==
  { <<>>, <<"temperature">>, <<"product_type">>,
    <<"temperature", "product_type">>, <<"product_type", "temperature">> }

PrepRows == {1, 2}

PrepTables ==
  UNION { { [cols |-> cs, vals |-> vs] :
              vs \in [DOMAIN cs -> [PrepRows -> CellValues]] } :
          cs \in ColumnOrders }

NoPrepTable == [cols |-> <<>>, vals |-> <<>>]

Range(f) == { f[i] : i \in DOMAIN f }

NamesOf(columns) == [i \in DOMAIN columns |-> columns[i].name]

IsNumeric(col) == col.type = "NUMERIC"

IsCategory(col) == col.type = "CATEGORY"

\* Preprocessor._create_column_transformer: the columns of the 'num' and
\* of the 'cat' transformer, each in schema order
create_column_transformer(columns) ==
  [num |-> NamesOf(SelectSeq(columns, IsNumeric)),
   cat |-> NamesOf(SelectSeq(columns, IsCategory))]

NoLearned == [stats |-> <<>>, categories |-> <<>>]

NoPreprocessor ==
  [made |-> FALSE, schema |-> <<>>, num |-> <<>>, cat |-> <<>>,
   status |-> "new", learned |-> NoLearned]

\* Preprocessor.__init__
Preprocessor(columns) ==
  LET ct == create_column_transformer(columns)
  IN [made |-> TRUE, schema |-> columns, num |-> ct.num, cat |-> ct.cat,
      status |-> "new", learned |-> NoLearned]

\* whether a DataFrame has a column with this label
HasColumn(data, name) == \E p \in DOMAIN data.cols : data.cols[p] = name

\* mutant of Column: the columns are taken by place, temperature first
ColumnByPlace(data, name) ==
  data.vals[IF name = "temperature" THEN 1 ELSE Len(data.cols)]

\* a DataFrame column taken by its label
Column(data, name) ==
  data.vals[CHOOSE p \in DOMAIN data.cols : data.cols[p] = name]

ColumnsMissing(st, data) ==
  \E name \in Range(st.num) \cup Range(st.cat) : ~HasColumn(data, name)

Distance(a, b) == IF a < b THEN b - a ELSE a - b

\* StandardScaler.fit on a column of two rows: twice the mean, and twice
\* the standard deviation
Stats(col) == [mean2 |-> col[1] + col[2], spread |-> Distance(col[1], col[2])]

\* StandardScaler.transform: (x - mean) / scale, the scale of a constant
\* column being 1
Standardize(x, s) ==
  IF s.spread = 0 THEN (2 * x - s.mean2) \div 2
  ELSE (2 * x - s.mean2) \div s.spread

RECURSIVE SortedSeq(_)
\* sorted(set of numbers)
SortedSeq(S) ==
  IF S = {} THEN <<>>
  ELSE LET m == CHOOSE x \in S : \A y \in S : x <= y
       IN <<m>> \o SortedSeq(S \ {m})

\* OneHotEncoder.fit on a column: the sorted distinct values
Categories(col) == SortedSeq(Range(col))

\* OneHotEncoder.transform of one value: one indicator per category
Indicators(v, cats) == [k \in DOMAIN cats |-> IF v = cats[k] THEN 1 ELSE 0]

RECURSIVE IndicatorsBefore(_, _)
\* the number of indicator columns of the 'cat' columns before the j-th
IndicatorsBefore(categories, j) ==
  IF j <= 1 THEN 0
  ELSE IndicatorsBefore(categories, j - 1) + Len(categories[j - 1])

RECURSIVE Flatten(_)
Flatten(seqs) ==
  IF seqs = <<>> THEN <<>> ELSE Head(seqs) \o Flatten(Tail(seqs))

\* ColumnTransformer.fit: the columns are taken by label; a label that the
\* table lacks raises ValueError before anything is learned
Preprocessor_fit(st, data) ==
  IF ColumnsMissing(st, data)
  THEN [st |-> [st EXCEPT !.status = IF @ \in {"new", "failed"} THEN "failed"
                                     ELSE "stale"],
        out |-> "ColumnsMissing"]
  ELSE [st |-> [st EXCEPT
                  !.status = "fitted",
                  !.learned =
                    [stats |-> [i \in DOMAIN st.num |->
                                  Stats(Column(data, st.num[i]))],
                     categories |-> [j \in DOMAIN st.cat |->
                                       Categories(Column(data, st.cat[j]))]]],
        out |-> "returned"]

UnknownCategory(st, data) ==
  \E j \in DOMAIN st.cat, r \in PrepRows :
    Column(data, st.cat[j])[r] \notin Range(st.learned.categories[j])

\* the matrix a fitted ColumnTransformer makes: per row, the scaled 'num'
\* columns and then the indicators of the 'cat' columns
Matrix(st, data) ==
  [r \in PrepRows |->
     [i \in DOMAIN st.num |->
        Standardize(Column(data, st.num[i])[r], st.learned.stats[i])]
     \o Flatten([j \in DOMAIN st.cat |->
                   Indicators(Column(data, st.cat[j])[r],
                              st.learned.categories[j])])]

NoMatrix == <<>>

transform_fitted(st, data) ==
  IF ColumnsMissing(st, data)
  THEN [out |-> "ColumnsMissing", X |-> NoMatrix]
  ELSE IF UnknownCategory(st, data)
  THEN [out |-> "UnknownCategory", X |-> NoMatrix]
  ELSE [out |-> "returned", X |-> Matrix(st, data)]

\* What transform does with a transformer whose last fit raised depends on
\* the scikit-learn installed: with nothing fitted it raises NotFittedError
\* or AttributeError; with an earlier fit it goes on with what that fit
\* learned or raises IndexError.
AfterFailedFit == { "NotFittedError", "AttributeError", "IndexError" }

\* mutant of transform: a transformer that was never fitted returns an
\* empty matrix
transformUnchecked(st, data, lib) ==
  IF st.status \in {"new", "failed"}
  THEN [out |-> "returned", X |-> [r \in PrepRows |-> <<>>]]
  ELSE transform_fitted(st, data)

\* Preprocessor.transform
transform(st, data, lib) ==
  CASE st.status = "new" -> [out |-> "NotFittedError", X |-> NoMatrix]
    [] st.status = "failed" ->
         [out |-> IF lib = "NotFittedError" THEN lib ELSE "AttributeError",
          X |-> NoMatrix]
    [] st.status = "stale" /\ lib = "IndexError" ->
         [out |-> lib, X |-> NoMatrix]
    [] OTHER -> transform_fitted(st, data)

\* Preprocessor.fit_transform
fit_transform(st, data) ==
  LET f == Preprocessor_fit(st, data)
  IN IF f.out # "returned"
     THEN [st |-> f.st, out |-> f.out, X |-> NoMatrix]
     ELSE [st |-> f.st, out |-> "returned", X |-> Matrix(f.st, data)]

(***************************************************************************)
(* State.                                                                  *)
(***************************************************************************)
VARIABLES
  schema,    \* DataLoader.schema['columns']
  call,      \* the last DataLoader call and its outcome
  config,    \* ModelTrainer.config
  trainer,   \* ModelTrainer's fields and the files it writes (the record st)
  fitDone,   \* some train_model call has completed its fit
  preRan,    \* some preprocess_data call has been made
  tr,        \* the last ModelTrainer call, its outcome and the st before it
  pc,        \* main: the step to take next
  args,      \* main: the parsed command line
  conf,      \* main: config, as load_config returned it
  sdoc,      \* main: schema, as load_schema returned it
  dataFile,  \* main: what is found at args.data
  steps,     \* main: the steps entered so far, in order
  exc,       \* main: the exception raised in the try block, "none" without
  handler,   \* main: the except clause that ran, "none" without
  exitCode,  \* main: the exit status of the process, -1 while it runs
  reports,   \* main: the report files written
  files,     \* main: what is found at args.config and at args.schema
  onnxDisk,  \* save_onnx_model: the directories and the .onnx files
  onnxCall,  \* the last save_onnx_model call and its outcome
  detector,  \* DriftDetector.reference_data and .current_data
  driftCall, \* the last DriftDetector call and its outcome
  calc,      \* MetricsCalculator.y_true and .y_pred
  metricsCall, \* the last MetricsCalculator call and its outcome
  handles,   \* the number of file handles the process holds open
  reporter,  \* ReportGenerator.output_dir, the directories and report files
  ioCall,    \* the last call that opens a file, and its outcome
  prep,      \* Preprocessor.schema, its transformer and what fit learned
  prepCall   \* the last Preprocessor call and its outcome

loaderVars == <<schema, call>>
trainerVars == <<config, trainer, fitDone, preRan, tr>>
mainVars ==
  <<pc, args, conf, sdoc, dataFile, steps, exc, handler, exitCode, reports,
    files>>
onnxVars == <<onnxDisk, onnxCall>>
driftVars == <<detector, driftCall>>
metricsVars == <<calc, metricsCall>>
prepVars == <<prep, prepCall>>
otherVars == <<onnxVars, driftVars, metricsVars, prepVars>>
reportVars == <<reporter, ioCall>>
ioVars == <<handles, reportVars>>
extraVars == <<mainVars, otherVars, ioVars>>
vars == <<loaderVars, trainerVars, extraVars>>

NoCall ==
  [op |-> "none", path |-> <<>>, read |-> FALSE, validated |-> FALSE,
   table |-> EmptyTable, out |-> "none", errCol |-> 0, examined |-> <<>>]


NoTrainerCall(st) ==
  [op |-> "none", out |-> "none", trace |-> <<>>, dataExists |-> FALSE,
   path |-> <<>>, pre |-> st, preFitDone |-> FALSE]

TrainerIdle ==
  /\ config = [k \in {} |-> {}]
  /\ trainer = NewTrainer({})
  /\ fitDone = FALSE
  /\ preRan = FALSE
  /\ tr = NoTrainerCall(NewTrainer({}))

LoaderIdle ==
  /\ schema = <<>>
  /\ call = NoCall

NoFiles == [config |-> "missing", schema |-> "missing"]

NoArgs == [data |-> <<>>, output |-> <<>>, report |-> FALSE]

MainIdle ==
  /\ pc = "idle"
  /\ args = NoArgs
  /\ conf = NoConfigValue
  /\ sdoc = NoSchemaValue
  /\ dataFile = NoDataFile
  /\ steps = <<>>
  /\ exc = "none"
  /\ handler = "none"
  /\ exitCode = -1
  /\ reports = {}
  /\ files = NoFiles

NoOnnxCall ==
  [op |-> "none", model |-> NoOnnxModel, out |-> "none", types |-> <<>>,
   path |-> onnx_path(<<>>, "none")]

OnnxIdle ==
  /\ onnxDisk = NewOnnxDisk({})
  /\ onnxCall = NoOnnxCall

NoDetector ==
  [made |-> FALSE, reference_data |-> NoDataset, current_data |-> NoDataset]

NoDriftCall ==
  [op |-> "none", out |-> "none", results |-> [c \in {} |-> "zero"],
   printed |-> {}]

DriftIdle ==
  /\ detector = NoDetector
  /\ driftCall = NoDriftCall

NoMetricsCall ==
  [op |-> "none", out |-> "none", y_true |-> <<>>, y_pred |-> <<>>,
   result |-> NoMetrics]

MetricsIdle ==
  /\ calc = NoCalculator
  /\ metricsCall = NoMetricsCall

NoIoCall ==
  [op |-> "none", out |-> "none", v |-> 0, entered |-> <<>>,
   opened |-> 0, closed |-> 0]

ReportIdle ==
  /\ reporter = NoReporter
  /\ ioCall = NoIoCall

IoIdle == handles = 0 /\ ReportIdle

NoPrepCall ==
  [op |-> "none", data |-> NoPrepTable, lib |-> "none", out |-> "none",
   X |-> NoMatrix]

PrepIdle ==
  /\ prep = NoPreprocessor
  /\ prepCall = NoPrepCall

OtherIdle == OnnxIdle /\ DriftIdle /\ MetricsIdle /\ IoIdle /\ PrepIdle

ExtraIdle == MainIdle /\ OtherIdle

\* DataLoader.__init__
InitLoader ==
  /\ schema \in Schemas
  /\ call = NoCall
  /\ TrainerIdle
  /\ ExtraIdle

\* a direct call of DataLoader.validate_data(data)
ValidateData ==
  \E data \in Tables :
    LET v == validate_data(schema, data)
    IN /\ call' = [op |-> "validate_data", path |-> <<>>, read |-> FALSE,
                   validated |-> TRUE, table |-> data, out |-> v.out,
                   errCol |-> v.errCol, examined |-> v.examined]
       /\ UNCHANGED <<schema, trainerVars, extraVars>>

\* a call of DataLoader.load_data(file_path); the file is looked at only
\* when one of the read branches is taken
LoadData ==
  \E path \in DataPaths :
    \E file \in IF Readable(path) THEN DataFiles(path) ELSE { NoDataFile } :
      LET r == load_data(schema, path, file)
      IN /\ call' = [op |-> "load_data", path |-> path, read |-> r.read,
                     validated |-> r.validated, table |-> r.table,
                     out |-> r.v.out, errCol |-> r.v.errCol,
                     examined |-> r.v.examined]
         /\ UNCHANGED <<schema, trainerVars, extraVars>>

NextLoader == ValidateData \/ LoadData

SpecLoader == InitLoader /\ [][NextLoader]_vars

(***************************************************************************)
(* ModelTrainer: construction and one action per public method.            *)
(***************************************************************************)
InitTrainer ==
  /\ config \in Configs
  /\ \E d \in {{}, {<<"models">>}} :
       /\ trainer = NewTrainer(d)
       /\ tr = NoTrainerCall(NewTrainer(d))
  /\ fitDone = FALSE
  /\ preRan = FALSE
  /\ LoaderIdle
  /\ ExtraIdle

Record(op, r, trace, exists, path) ==
  [op |-> op, out |-> r.out, trace |-> trace, dataExists |-> exists,
   path |-> path, pre |-> trainer, preFitDone |-> fitDone]

TrainerLoadData ==
  \E file \in TrainFiles :
    LET r == trainer_load_data(file)
    IN /\ tr' = Record("load_data", r, <<>>, file.exists, <<>>)
       /\ UNCHANGED <<config, trainer, fitDone, preRan, loaderVars, extraVars>>

PreprocessData ==
  /\ Len(trainer.objs) < MaxPipelines
  /\ \E data \in TrainTables :
       LET r == preprocess_data(trainer, config, data)
       IN /\ trainer' = r.st
          /\ preRan' = TRUE
          /\ tr' = Record("preprocess_data", r, <<>>, TRUE, <<>>)
          /\ UNCHANGED <<config, fitDone, loaderVars, extraVars>>

TrainModel ==
  \E fit \in FitResults :
    LET r == train_model(trainer, fit)
    IN /\ trainer' = r.st
       /\ fitDone' = (fitDone \/ r.out = "returned")
       /\ tr' = Record("train_model", r, <<>>, TRUE, <<>>)
       /\ UNCHANGED <<config, preRan, loaderVars, extraVars>>

SaveModel ==
  \E path \in ModelPaths :
    LET r == save_model(trainer, path)
    IN /\ trainer' = r.st
       /\ tr' = Record("save_model", r, <<>>, TRUE, path)
       /\ UNCHANGED <<config, fitDone, preRan, loaderVars, extraVars>>

Run ==
  /\ Len(trainer.objs) < MaxPipelines
  /\ \E file \in TrainFiles, path \in ModelPaths, fit \in FitResults :
       LET r == run(trainer, config, file, path, fit)
       IN /\ trainer' = r.st
          /\ fitDone' = (fitDone \/ r.fitted)
          /\ preRan' = (preRan \/ \E i \in DOMAIN r.trace :
                                     r.trace[i] = "preprocess_data")
          /\ tr' = Record("run", r, r.trace, file.exists, path)
          /\ UNCHANGED <<config, loaderVars, extraVars>>

NextTrainer ==
  TrainerLoadData \/ PreprocessData \/ TrainModel \/ SaveModel \/ Run

SpecTrainer == InitTrainer /\ [][NextTrainer]_vars

(***************************************************************************)
(* main: the try block of trainer/main.py, one action per step, the        *)
(* except clauses, and the normal end.  A step that raises moves to the    *)
(* except clauses with the exception in exc.                               *)
(***************************************************************************)
InitMain ==
  /\ pc = "load_config"
  /\ args \in [data : MainDataPaths, output : OutputDirs, report : BOOLEAN]
  /\ conf = NoConfigValue
  /\ sdoc = NoSchemaValue
  /\ dataFile = NoDataFile
  /\ steps = <<>>
  /\ exc = "none"
  /\ handler = "none"
  /\ exitCode = -1
  /\ reports = {}
  /\ files \in [config : FileStates, schema : FileStates]
  /\ OtherIdle
  /\ LoaderIdle
  /\ config = EmptyConfig
  /\ \E d \in {{}, {<<"models">>}} :
       /\ trainer = NewTrainer(d)
       /\ tr = NoTrainerCall(NewTrainer(d))
  /\ fitDone = FALSE
  /\ preRan = FALSE

\* mutant of After: the 'training' test comes straight after load_config
AfterSkipsSchema(out, next) ==
  IF out # "returned" THEN "except"
  ELSE IF next = "load_schema" THEN "training_section"
  ELSE next

\* mutant of After: the step's exception is logged and main carries on
AfterContinues(out, next) == next

\* where a step that ended with out goes next
After(out, next) == IF out = "returned" THEN next ELSE "except"

\* the exception a step that ended with out leaves pending
Raised(out) == IF out = "returned" THEN "none" ELSE out

\* line 186
MainLoadConfig ==
  /\ pc = "load_config"
  /\ \E file \in { f \in ConfigFiles : f.state = files.config } :
       LET r == load_config(file)
       IN /\ conf' = r.value
          /\ steps' = Append(steps, "load_config")
          /\ exc' = Raised(r.out)
          /\ pc' = After(r.out, "load_schema")
          /\ handles' = handles + Leaked(r.io)
  /\ UNCHANGED <<reportVars, otherVars, files, args, sdoc, dataFile, handler,
                 exitCode, reports,
                 loaderVars, trainerVars>>

\* line 191
MainLoadSchema ==
  /\ pc = "load_schema"
  /\ \E file \in { f \in SchemaFiles : f.state = files.schema } :
       LET r == load_schema(file)
       IN /\ sdoc' = r.value
          /\ steps' = Append(steps, "load_schema")
          /\ exc' = Raised(r.out)
          /\ pc' = After(r.out, "training_section")
          /\ handles' = handles + Leaked(r.io)
  /\ UNCHANGED <<reportVars, otherVars, files, args, conf, dataFile, handler,
                 exitCode, reports,
                 loaderVars, trainerVars>>

\* lines 197-208
MainTrainingSection ==
  /\ pc = "training_section"
  /\ LET out == training_section(conf)
     IN /\ steps' = Append(steps, "training_section")
        /\ exc' = Raised(out)
        /\ pc' = After(out, "load_data")
  /\ UNCHANGED <<ioVars, otherVars, files, args, conf, sdoc, dataFile,
                 handler,
                 exitCode, reports, loaderVars, trainerVars>>

\* lines 215-216
MainLoadData ==
  /\ pc = "load_data"
  /\ \E file \in IF Readable(args.data) THEN DataFiles(args.data)
                 ELSE { NoDataFile } :
       LET r == main_load_data(sdoc, args.data, file)
       IN /\ schema' = sdoc.columns
          /\ call' = [op |-> "load_data", path |-> args.data, read |-> r.read,
                      validated |-> r.validated, table |-> r.table,
                      out |-> r.v.out, errCol |-> r.v.errCol,
                      examined |-> r.v.examined]
          /\ dataFile' = file
          /\ steps' = Append(steps, "load_data")
          /\ exc' = Raised(r.v.out)
          /\ pc' = After(r.v.out, "preprocess")
  /\ UNCHANGED <<ioVars, otherVars, files, args, conf, sdoc, handler,
                 exitCode,
                 reports, trainerVars>>

\* mutant of MainPreprocess: the output directory is made before the
\* Preprocessor is run
MainPreprocessMakesOutputDir ==
  /\ pc = "preprocess"
  /\ trainer' = [trainer EXCEPT !.dirs = makedirs(@, args.output)]
  /\ \E out \in PrepResults :
       /\ steps' = Append(steps, "preprocess")
       /\ exc' = Raised(out)
       /\ pc' = After(out, "train")
  /\ UNCHANGED <<ioVars, otherVars, files, args, conf, sdoc, dataFile,
                 handler,
                 exitCode, reports, loaderVars, config, fitDone, preRan, tr>>

\* lines 229-232
MainPreprocess ==
  /\ pc = "preprocess"
  /\ \E out \in PrepResults :
       /\ steps' = Append(steps, "preprocess")
       /\ exc' = Raised(out)
       /\ pc' = After(out, "train")
  /\ UNCHANGED <<ioVars, otherVars, files, args, conf, sdoc, dataFile,
                 handler,
                 exitCode, reports, loaderVars, trainerVars>>

\* lines 243-250
MainTrain ==
  /\ pc = "train"
  /\ \E fit \in FitResults :
       LET r == main_train(trainer.dirs, conf.training, args.data, dataFile,
                           args.output, fit)
       IN /\ config' = conf.training
          /\ trainer' = r.st
          /\ fitDone' = r.fitted
          /\ preRan' = \E i \in DOMAIN r.trace : r.trace[i] = "preprocess_data"
          /\ tr' = [op |-> "run", out |-> r.out, trace |-> r.trace,
                    dataExists |-> dataFile.exists,
                    path |-> model_path(args.output), pre |-> trainer,
                    preFitDone |-> FALSE]
          /\ steps' = Append(steps, "train")
          /\ exc' = Raised(r.out)
          /\ pc' = After(r.out, "report")
  /\ UNCHANGED <<ioVars, otherVars, files, args, conf, sdoc, dataFile,
                 handler,
                 exitCode, reports, loaderVars>>

\* lines 275-299
MainReport ==
  /\ pc = "report"
  /\ IF args.report
     THEN \E res \in ReportResults :
           LET w == write_summary(res)
               out == w.out
           IN
            /\ trainer' = [trainer EXCEPT
                             !.dirs = makedirs(@, report_dir(args.output))]
            /\ handles' = handles + Leaked(w.io)
            /\ reports' = IF out = "returned"
                          THEN reports \cup
                                 { [path |-> report_path(args.output),
                                    content |-> Summary(args.output,
                                                        conf.training)] }
                          ELSE reports
            /\ steps' = Append(steps, "report")
            /\ exc' = Raised(out)
            /\ pc' = After(out, "finish")
     ELSE /\ pc' = "finish"
          /\ UNCHANGED <<trainer, reports, steps, exc, handles>>
  /\ UNCHANGED <<reportVars, otherVars, files, args, conf, sdoc, dataFile,
                 handler,
                 exitCode, loaderVars, config, fitDone, preRan, tr>>

\* lines 301-312: the try block ends and main returns
MainFinish ==
  /\ pc = "finish"
  /\ exitCode' = 0
  /\ pc' = "exited"
  /\ UNCHANGED <<ioVars, otherVars, files, args, conf, sdoc, dataFile,
                 steps, exc,
                 handler, reports, loaderVars, trainerVars>>

\* lines 314-342: the except clause logs and calls sys.exit(1)
MainExcept ==
  /\ pc = "except"
  /\ handler' = Handler(exc)
  /\ exitCode' = 1
  /\ pc' = "exited"
  /\ UNCHANGED <<ioVars, otherVars, files, args, conf, sdoc, dataFile,
                 steps, exc,
                 reports, loaderVars, trainerVars>>

NextMain ==
  \/ MainLoadConfig \/ MainLoadSchema \/ MainTrainingSection \/ MainLoadData
  \/ MainPreprocess \/ MainTrain \/ MainReport \/ MainFinish \/ MainExcept

SpecMain == InitMain /\ [][NextMain]_vars

(***************************************************************************)
(* save_onnx_model, called with any model, directory and name.             *)
(***************************************************************************)
InitOnnx ==
  /\ \E d \in SUBSET { <<"models">> } : onnxDisk = NewOnnxDisk(d)
  /\ onnxCall = NoOnnxCall
  /\ DriftIdle
  /\ MetricsIdle
  /\ IoIdle
  /\ PrepIdle
  /\ LoaderIdle
  /\ TrainerIdle
  /\ MainIdle

SaveOnnxModel ==
  /\ \E model \in OnnxModels, dir \in OnnxDirs, name \in ModelNames,
        conv \in ConvertResults :
       LET r == save_onnx_model(onnxDisk, model, dir, name, conv)
       IN /\ onnxDisk' = r.disk
          /\ onnxCall' = [op |-> "save_onnx_model", model |-> model,
                          out |-> r.out, types |-> r.types, path |-> r.path]
          /\ handles' = handles + Leaked(r.io)
  /\ UNCHANGED <<loaderVars, trainerVars, mainVars, driftVars, metricsVars,
                 reportVars, prepVars>>

NextOnnx == SaveOnnxModel

SpecOnnx == InitOnnx /\ [][NextOnnx]_vars

(***************************************************************************)
(* DriftDetector: one detector, made once from any two datasets; its two   *)
(* fields are assigned in __init__ only.                                   *)
(***************************************************************************)
InitDrift ==
  /\ DriftIdle
  /\ OnnxIdle
  /\ MetricsIdle
  /\ IoIdle
  /\ PrepIdle
  /\ LoaderIdle
  /\ TrainerIdle
  /\ MainIdle

\* __init__
NewDriftDetector ==
  /\ ~detector.made
  /\ \E ref \in Datasets, cur \in Datasets :
       detector' = [made |-> TRUE, reference_data |-> ref,
                    current_data |-> cur]
  /\ driftCall' = NoDriftCall
  /\ UNCHANGED <<loaderVars, trainerVars, mainVars, onnxVars, metricsVars,
                 ioVars, prepVars>>

DetectDrift ==
  /\ detector.made
  /\ LET r == detect_drift(detector.reference_data, detector.current_data)
     IN driftCall' = [op |-> "detect_drift", out |-> r.out,
                      results |-> r.results, printed |-> {}]
  /\ UNCHANGED <<detector, loaderVars, trainerVars, mainVars, onnxVars,
                 metricsVars, ioVars, prepVars>>

ReportDrift ==
  /\ detector.made
  /\ LET r == report_drift(detector.reference_data, detector.current_data)
     IN driftCall' = [op |-> "report_drift", out |-> r.out,
                      results |-> r.results, printed |-> r.printed]
  /\ UNCHANGED <<detector, loaderVars, trainerVars, mainVars, onnxVars,
                 metricsVars, ioVars, prepVars>>

NextDrift == NewDriftDetector \/ DetectDrift \/ ReportDrift

SpecDrift == InitDrift /\ [][NextDrift]_vars

(***************************************************************************)
(* MetricsCalculator: one calculator, made by the first constructor call   *)
(* that returns; its two fields are assigned in __init__ only.             *)
(***************************************************************************)
InitMetrics ==
  /\ MetricsIdle
  /\ DriftIdle
  /\ OnnxIdle
  /\ IoIdle
  /\ PrepIdle
  /\ LoaderIdle
  /\ TrainerIdle
  /\ MainIdle

MetricsFrame ==
  UNCHANGED <<loaderVars, trainerVars, mainVars, onnxVars, driftVars, ioVars,
              prepVars>>

\* __init__
NewMetricsCalculator ==
  /\ ~calc.made
  /\ \E y_true \in LabelSeqs, y_pred \in LabelSeqs :
       LET r == MetricsCalculator(y_true, y_pred)
       IN /\ calc' = r.calc
          /\ metricsCall' = [op |-> "__init__", out |-> r.out,
                             y_true |-> y_true, y_pred |-> y_pred,
                             result |-> NoMetrics]
  /\ MetricsFrame

\* a call of method op, which computes the metrics named in names
Calculate(op, r) ==
  /\ calc.made
  /\ metricsCall' = [op |-> op, out |-> r.out, y_true |-> calc.y_true,
                     y_pred |-> calc.y_pred, result |-> r.result]
  /\ UNCHANGED calc
  /\ MetricsFrame

CalculateAccuracy ==
  \E e \in EmptyResults :
    Calculate("calculate_accuracy", calculate(calc, {"accuracy"}, e))

CalculatePrecision ==
  \E e \in EmptyResults :
    Calculate("calculate_precision", calculate(calc, {"precision"}, e))

CalculateRecall ==
  \E e \in EmptyResults :
    Calculate("calculate_recall", calculate(calc, {"recall"}, e))

CalculateF1Score ==
  \E e \in EmptyResults :
    Calculate("calculate_f1_score", calculate(calc, {"f1_score"}, e))

GetMetrics ==
  \E e \in EmptyResults : Calculate("get_metrics", get_metrics(calc, e))

NextMetrics ==
  \/ NewMetricsCalculator \/ CalculateAccuracy \/ CalculatePrecision
  \/ CalculateRecall \/ CalculateF1Score \/ GetMetrics

SpecMetrics == InitMetrics /\ [][NextMetrics]_vars

(***************************************************************************)
(* ReportGenerator: one generator, made once for an output directory.      *)
(***************************************************************************)
InitReport ==
  /\ IoIdle
  /\ PrepIdle
  /\ OnnxIdle /\ DriftIdle /\ MetricsIdle
  /\ LoaderIdle
  /\ TrainerIdle
  /\ MainIdle

ReportFrame ==
  UNCHANGED <<loaderVars, trainerVars, mainVars, onnxVars, driftVars,
              metricsVars, prepVars>>

\* what a call that opens files leaves in ioCall and handles
IoDone(op, out, v, entered, io) ==
  /\ ioCall' = [op |-> op, out |-> out, v |-> v, entered |-> entered,
                opened |-> io.opened, closed |-> io.closed]
  /\ handles' = handles + Leaked(io)

NewReportGenerator ==
  /\ ~reporter.made
  /\ \E dir \in ReportDirs : reporter' = ReportGenerator(reporter, dir)
  /\ UNCHANGED <<ioCall, handles>>
  /\ ReportFrame

GenerateMetricsReport ==
  /\ reporter.made
  /\ \E v \in Contents, res \in WriteResults :
       LET r == generate_metrics_report(reporter, v, res)
       IN /\ reporter' = r.st
          /\ IoDone("generate_metrics_report", r.out, v,
                    SubSeq(ReportNames, 1, 1), r.io)
  /\ ReportFrame

GenerateShapReport ==
  /\ reporter.made
  /\ \E v \in Contents, res \in WriteResults :
       LET r == generate_shap_report(reporter, v, res)
       IN /\ reporter' = r.st
          /\ IoDone("generate_shap_report", r.out, v,
                    SubSeq(ReportNames, 2, 2), r.io)
  /\ ReportFrame

GenerateDriftReport ==
  /\ reporter.made
  /\ \E v \in Contents, res \in WriteResults :
       LET r == generate_drift_report(reporter, v, res)
       IN /\ reporter' = r.st
          /\ IoDone("generate_drift_report", r.out, v,
                    SubSeq(ReportNames, 3, 3), r.io)
  /\ ReportFrame

SaveReport ==
  /\ reporter.made
  /\ \E v \in Contents, rs \in [1..3 -> WriteResults] :
       LET r == save_report(reporter, v, rs)
       IN /\ reporter' = r.st
          /\ IoDone("save_report", r.out, v, r.entered, r.io)
  /\ ReportFrame

NextReport ==
  \/ NewReportGenerator \/ GenerateMetricsReport \/ GenerateShapReport
  \/ GenerateDriftReport \/ SaveReport

SpecReport == InitReport /\ [][NextReport]_vars

(***************************************************************************)
(* The functions that open a file, each called on its own: load_config,    *)
(* load_schema, the writers of ReportGenerator, the with block that writes *)
(* the training summary, and convert_model_to_onnx.                        *)
(***************************************************************************)
InitFiles ==
  /\ IoIdle
  /\ PrepIdle
  /\ onnxDisk \in { NewOnnxDisk({}), NewOnnxDisk(makedirs({}, <<"models">>)) }
  /\ onnxCall = NoOnnxCall
  /\ DriftIdle /\ MetricsIdle
  /\ LoaderIdle
  /\ TrainerIdle
  /\ MainIdle

FilesFrame ==
  UNCHANGED <<loaderVars, trainerVars, driftVars, metricsVars, prepVars,
              onnxCall,
              pc, args, conf, sdoc, dataFile, steps, exc, handler, exitCode,
              files>>

LoadConfig ==
  /\ \E state \in FileStates :
       LET file == CHOOSE f \in ConfigFiles : f.state = state
           r == load_config(file)
       IN IoDone("load_config", r.out, 0, <<>>, r.io)
  /\ UNCHANGED <<reporter, reports, onnxDisk>>
  /\ FilesFrame

LoadSchema ==
  /\ \E state \in FileStates :
       LET file == CHOOSE f \in SchemaFiles : f.state = state
           r == load_schema(file)
       IN IoDone("load_schema", r.out, 0, <<>>, r.io)
  /\ UNCHANGED <<reporter, reports, onnxDisk>>
  /\ FilesFrame

\* main, lines 294-295, with the output directory and the configuration
\* of a run that has not read any
WriteSummary ==
  /\ \E res \in WriteResults :
       LET w == write_summary(res)
       IN /\ reports' = IF w.out = "returned"
                        THEN reports \cup
                               { [path |-> report_path(args.output),
                                  content |-> Summary(args.output,
                                                      EmptyConfig)] }
                        ELSE reports
          /\ IoDone("write_summary", w.out, 0, <<>>, w.io)
  /\ UNCHANGED <<reporter, onnxDisk>>
  /\ FilesFrame

ConvertModelToOnnx ==
  /\ \E path \in OnnxPaths,
        conv \in ConvertResults \cup {"FileNotFoundError"} :
       /\ conv \in {"returned", "WriteError"} => path.dir \in onnxDisk.dirs
       /\ conv = "FileNotFoundError" => path.dir \notin onnxDisk.dirs
       /\ LET c == convert_model_to_onnx(onnxDisk.files, path,
                                         initial_types(DefaultWidth), conv)
          IN /\ onnxDisk' = [onnxDisk EXCEPT !.files = c.files]
             /\ IoDone("convert_model_to_onnx", c.out, 0, <<>>, c.io)
  /\ UNCHANGED <<reporter, reports>>
  /\ FilesFrame

NextFiles ==
  \/ LoadConfig \/ LoadSchema \/ WriteSummary \/ ConvertModelToOnnx
  \/ NewReportGenerator \/ GenerateMetricsReport \/ GenerateShapReport
  \/ GenerateDriftReport

SpecFiles == InitFiles /\ [][NextFiles]_vars

(***************************************************************************)
(* Preprocessor: one object, made once from a schema.                      *)
(***************************************************************************)
InitPrep ==
  /\ PrepIdle
  /\ IoIdle
  /\ OnnxIdle /\ DriftIdle /\ MetricsIdle
  /\ LoaderIdle
  /\ TrainerIdle
  /\ MainIdle

PrepFrame ==
  UNCHANGED <<loaderVars, trainerVars, mainVars, onnxVars, driftVars,
              metricsVars, ioVars>>

NewPreprocessor ==
  /\ ~prep.made
  /\ \E columns \in PrepSchemas : prep' = Preprocessor(columns)
  /\ UNCHANGED prepCall
  /\ PrepFrame

PrepFit ==
  /\ prep.made
  /\ \E data \in PrepTables :
       LET r == Preprocessor_fit(prep, data)
       IN /\ prep' = r.st
          /\ prepCall' = [op |-> "fit", data |-> data, lib |-> "none",
                          out |-> r.out, X |-> NoMatrix]
  /\ PrepFrame

PrepTransform ==
  /\ prep.made
  /\ \E data \in PrepTables,
        lib \in IF prep.status \in {"failed", "stale"} THEN AfterFailedFit
                ELSE {"none"} :
       LET r == transform(prep, data, lib)
       IN prepCall' = [op |-> "transform", data |-> data, lib |-> lib,
                       out |-> r.out, X |-> r.X]
  /\ UNCHANGED prep
  /\ PrepFrame

PrepFitTransform ==
  /\ prep.made
  /\ \E data \in PrepTables :
       LET r == fit_transform(prep, data)
       IN /\ prep' = r.st
          /\ prepCall' = [op |-> "fit_transform", data |-> data,
                          lib |-> "none", out |-> r.out, X |-> r.X]
  /\ PrepFrame

NextPrep == NewPreprocessor \/ PrepFit \/ PrepTransform \/ PrepFitTransform

SpecPrep == InitPrep /\ [][NextPrep]_vars

(***************************************************************************)
(* Properties of DataLoader.                                               *)
(***************************************************************************)
\* column col of a schema is absent from t, or required and holding nulls
Violates(col, t) ==
  col.name \notin t.cols \/ (col.required /\ col.name \in t.nulls)

\* index of the earliest violating schema column, 0 when there is none
FirstViolation(s, t) ==
  IF \E i \in DOMAIN s : Violates(s[i], t)
  THEN CHOOSE i \in DOMAIN s :
         Violates(s[i], t) /\ \A j \in 1..(i - 1) : ~Violates(s[j], t)
  ELSE 0

\* the extension of a path: from its last dot on, empty without a dot
Extension(p) ==
  IF \E i \in DOMAIN p : p[i] = "."
  THEN LET d == CHOOSE i \in DOMAIN p :
                  p[i] = "." /\ \A j \in (i + 1)..Len(p) : p[j] # "."
       IN SubSeq(p, d, Len(p))
  ELSE <<>>

\* C1: whenever a column listed in the schema is absent from the validated
\* table, validate_data ends with one of its two schema-violation
\* ValueErrors (and so load_data does not return).
C1_AbsentColumnRaisesValueError ==
  (call.validated /\ \E i \in DOMAIN schema : schema[i].name \notin call.table.cols)
    => call.out \in {"MissingColumn", "NullValues"}

\* C2 as stated: a required column that is present and holds a null makes
\* validate_data raise the null-value ValueError naming that very column.
C2_NullErrorNamesThatColumn ==
  \A i \in DOMAIN schema :
    (call.validated /\ schema[i].required /\ schema[i].name \in call.table.nulls)
      => (call.out = "NullValues" /\ call.errCol = schema[i].name)

\* C2 as amended: with a required column c present and holding a null,
\* validate_data always raises; the error is the null-value ValueError
\* naming c exactly when no earlier schema column is in violation, and
\* otherwise it is the error raised at the earliest violating column.
C2_NullErrorNamesEarliestViolation ==
  \A i \in DOMAIN schema :
    (call.validated /\ schema[i].required /\ schema[i].name \in call.table.nulls)
      => /\ call.out \in {"MissingColumn", "NullValues", "JoinTypeError"}
         /\ call.errCol = schema[FirstViolation(schema, call.table)].name
         /\ (call.out = "NullValues" /\ call.errCol = schema[i].name)
              <=> (FirstViolation(schema, call.table) = i)

C2_Witness ==
  /\ call.validated
  /\ Len(schema) = 2
  /\ schema[2].required /\ schema[2].name \in call.table.nulls
  /\ call.out = "NullValues" /\ call.errCol = schema[2].name

\* C3: a table returned by load_data holds every required schema column,
\* without a null in it.
C3_ReturnedTableMeetsSchema ==
  (call.op = "load_data" /\ call.out = "returned")
    => \A i \in DOMAIN schema :
         schema[i].required
           => /\ schema[i].name \in call.table.cols
              /\ schema[i].name \notin call.table.nulls

C3_Witness ==
  /\ call.op = "load_data" /\ call.out = "returned"
  /\ \E i \in DOMAIN schema : schema[i].required
  /\ call.table.nulls # {}

\* C4: validate_data looks at the schema columns in schema order and stops
\* at the earliest violating one: the columns examined are exactly those up
\* to it, the error is raised for it (the absence error when it is absent,
\* the null error otherwise), and without a violation all are examined and
\* the call returns.
C4_StopsAtFirstViolation ==
  call.validated =>
    LET k == FirstViolation(schema, call.table)
    IN IF k = 0
       THEN /\ call.out = "returned"
            /\ call.examined = [i \in 1..Len(schema) |-> schema[i].name]
       ELSE /\ call.examined = [i \in 1..k |-> schema[i].name]
            /\ call.errCol = schema[k].name
            /\ IF schema[k].name \notin call.table.cols
               THEN call.out \in {"MissingColumn", "JoinTypeError"}
               ELSE call.out = "NullValues"

C4_Witness ==
  /\ call.validated
  /\ Len(schema) = 2
  /\ Violates(schema[1], call.table) /\ Violates(schema[2], call.table)
  /\ call.examined = <<schema[1].name>>
  /\ call.errCol = schema[1].name

\* C5: load_data on a path whose extension is none of .csv, .xls, .xlsx
\* raises the unsupported-format ValueError, reads no file and does not run
\* validate_data.
C5_UnsupportedExtensionRejected ==
  (call.op = "load_data"
     /\ Extension(call.path) \notin {SuffixCsv, SuffixXls, SuffixXlsx})
    => /\ call.out = "UnsupportedFormat"
       /\ ~call.read
       /\ ~call.validated

C5_Witness ==
  /\ call.op = "load_data"
  /\ Extension(call.path) = <<".", "b">>
  /\ call.out = "UnsupportedFormat"

(***************************************************************************)
(* Properties of ModelTrainer.                                             *)
(***************************************************************************)
\* C6: train_model on a trainer whose pipeline is None raises the
\* pipeline-not-initialized ValueError and changes nothing (pipeline and
\* model stay None); a fit has only ever completed after a preprocess_data
\* call.
C6_TrainNeedsPipeline ==
  /\ (tr.op = "train_model" /\ tr.pre.pipeline = 0)
       => /\ tr.out = "PipelineNotInitialized"
          /\ ExcType(tr.out) = "ValueError"
          /\ trainer = tr.pre
          /\ trainer.pipeline = 0 /\ trainer.model = 0
  /\ fitDone => preRan

C6_Witness ==
  /\ tr.op = "train_model" /\ tr.pre.pipeline = 0
  /\ tr.out = "PipelineNotInitialized"

\* C7: a model file exists only if some train_model call has completed its
\* fit; a save_model call made before that raises the no-model ValueError
\* and creates neither a directory nor a file.
C7_SaveNeedsCompletedFit ==
  /\ \A p \in ModelPaths : trainer.files[p].exists => fitDone
  /\ (tr.op = "save_model" /\ ~tr.preFitDone)
       => /\ tr.out = "NoModel"
          /\ ExcType(tr.out) = "ValueError"
          /\ trainer.dirs = tr.pre.dirs
          /\ trainer.files = tr.pre.files

C7_Witness ==
  /\ tr.op = "save_model" /\ ~tr.preFitDone
  /\ tr.pre.pipeline # 0
  /\ dirname(tr.path) # <<>> /\ dirname(tr.path) \notin trainer.dirs
  /\ tr.out = "NoModel"

\* C8: a run that does not return writes nothing, and when load_data,
\* preprocess_data or train_model raised, save_model was not entered and
\* the error of run is the error of that method; a run that returns has
\* entered the four methods and left at model_path the fitted pipeline of
\* both steps that it built.
C8_RunAllOrNothing ==
  tr.op = "run" =>
    /\ tr.out # "returned"
         => /\ trainer.files = tr.pre.files
            /\ trainer.dirs = tr.pre.dirs
    /\ \A i \in DOMAIN tr.trace :
         (tr.trace[i] = "save_model")
           => /\ tr.trace = <<"load_data", "preprocess_data", "train_model",
                              "save_model">>
              /\ tr.out \in {"returned", "MakedirsError"}
    /\ (tr.trace = <<"load_data">>) => tr.out = "TrainingDataMissing"
    /\ (tr.trace = <<"load_data", "preprocess_data">>) => tr.out = "KeyError"
    /\ (tr.trace = <<"load_data", "preprocess_data", "train_model">>)
         => tr.out = "FitError"
    /\ tr.out = "returned"
         => /\ trainer.pipeline # 0
            /\ trainer.files[tr.path] =
                 [exists |-> TRUE, obj |-> trainer.pipeline,
                  steps |-> <<"preprocessor", "classifier">>, fit |-> "fitted"]

C8_Witness ==
  /\ tr.op = "run" /\ tr.out = "FitError"
  /\ tr.pre.model # 0
  /\ dirname(tr.path) # <<>> /\ ~trainer.files[tr.path].exists

\* C9: a run with a configuration lacking one of the three keys ends with
\* an error raised for that cause only (not the KeyError that an absent
\* data column raises too, nor the missing-data error), fits nothing and
\* writes nothing.
C9_MissingKeyRaisesNotConfigured ==
  (tr.op = "run" /\ DOMAIN config # ConfigKeys)
    => /\ tr.out = "NotConfigured"
       /\ trainer.model = tr.pre.model
       /\ trainer.files = tr.pre.files

\* C10: load_data and run on a data path that does not exist raise the
\* training-data-missing FileNotFoundError; no pipeline object is created,
\* the trainer and the files are as before (pipeline and model None on a
\* new trainer), and run enters no method after load_data.
C10_MissingDataChangesNothing ==
  (tr.op \in {"load_data", "run"} /\ ~tr.dataExists)
    => /\ tr.out = "TrainingDataMissing"
       /\ ExcType(tr.out) = "FileNotFoundError"
       /\ trainer = tr.pre
       /\ tr.op = "run" => tr.trace = <<"load_data">>

C10_Witness ==
  /\ tr.op = "run" /\ ~tr.dataExists
  /\ tr.out = "TrainingDataMissing"
  /\ trainer.pipeline = 0 /\ trainer.model = 0
  /\ DOMAIN config = ConfigKeys

(***************************************************************************)
(* Properties of main.                                                     *)
(***************************************************************************)
Exited == pc = "exited"

Entered(step) == \E i \in DOMAIN steps : steps[i] = step

ModelWritten == \E p \in ModelPaths : trainer.files[p].exists

C12_NothingAfterARaise ==
  /\ [](exc # "none" =>
          /\ pc \in {"except", "exited"}
          /\ Exited => (handler # "none" /\ exitCode # 0 /\ exitCode # -1)
          /\ (~Entered("train")) => ~ModelWritten
          /\ reports = {})
  /\ [][exc # "none" =>
          /\ steps' = steps
          /\ exc' = exc
          /\ reports' = reports
          /\ trainer' = trainer
          /\ call' = call]_vars

C12_Witness ==
  /\ Exited
  /\ steps = <<"load_config", "load_schema", "training_section", "load_data">>
  /\ exc = "MissingColumn"
  /\ handler = "ValueError"

\* the inputs of a run are valid: config and schema files hold objects with
\* the sections main reads, the data is a CSV file that meets the schema
\* and has the configured columns
ValidInputs ==
  /\ files = [config |-> "json", schema |-> "json"]
  /\ conf.kind = "object" /\ conf.has /\ conf.dictTraining
  /\ DOMAIN conf.training = ConfigKeys
  /\ sdoc.hasColumns
  /\ EndsWith(args.data, SuffixCsv)
  /\ dataFile.exists
  /\ call.op = "load_data" /\ call.out = "returned"

\* C13: a run of main with --report on valid inputs, in which no step
\* raised, ends with exit status 0, the model file <output>/model.joblib
\* and exactly three report files.
C13_ThreeReportFiles ==
  (Exited /\ args.report /\ ValidInputs /\ exc = "none") =>
    /\ exitCode = 0
    /\ trainer.files[model_path(args.output)].exists
    /\ Cardinality(reports) = 3

\* the stage of the pipeline a step of main belongs to
Stage(step) ==
  CASE step = "load_data" -> "Loader"
    [] step = "preprocess" -> "Preprocessor"
    [] step = "train" -> "Trainer"
    [] step = "report" -> "Reporter"
    [] OTHER -> "Driver"

Stages == SelectSeq([i \in DOMAIN steps |-> Stage(steps[i])],
                    LAMBDA g : g # "Driver")

\* C14: a run of main that ends with exit status 0 and --report has gone
\* through the stages Loader, Preprocessor, Trainer, Converter, Analyzers,
\* Reporter, each once and in this order.
C14_AllStagesInOrder ==
  (Exited /\ exitCode = 0 /\ args.report) =>
    Stages = <<"Loader", "Preprocessor", "Trainer", "Converter", "Analyzers",
               "Reporter">>

\* C15: load_config ends in exactly one of three ways: it returns a mapping
\* when the file holds well-formed JSON, raises ValueError when the file
\* holds malformed JSON, raises FileNotFoundError when there is no file.
C15_LoadConfigThreeOutcomes ==
  (Len(steps) = 1) =>
    /\ files.config = "json" => (exc = "none" /\ conf.kind = "object")
    /\ files.config = "malformed" => ExcType(exc) = "ValueError"
    /\ files.config = "missing" => ExcType(exc) = "FileNotFoundError"

ConfigLoaded == Entered("load_config") /\ files.config = "json"

\* C16 as stated: a loaded configuration without 'training' makes main end
\* with the ValueError of the 'training' test and exit status 1, before any
\* data file is loaded and without a model trained or written.
C16_NoTrainingIsValueError ==
  (Exited /\ ConfigLoaded /\ ~conf.has) =>
    /\ exc = "NoTrainingSection"
    /\ handler = "ValueError"
    /\ exitCode = 1
    /\ ~Entered("load_data")
    /\ ~ModelWritten

\* C16, amended: with a loaded configuration without 'training', main never
\* enters the data load, trains or writes nothing, and ends with exit
\* status 1; the exception is the one of load_schema when that fails, and
\* otherwise the ValueError of the 'training' test, or a TypeError of that
\* test (Exception clause) when the configuration is a JSON number.
C16_NoTrainingStopsBeforeData ==
  (ConfigLoaded /\ ~conf.has) =>
    /\ ~Entered("load_data") /\ ~Entered("train")
    /\ call = NoCall
    /\ ~ModelWritten
    /\ ~fitDone
    /\ reports = {}
    /\ Exited =>
         /\ exitCode = 1
         /\ files.schema = "missing" =>
              (exc = "SchemaNotFound" /\ handler = "FileNotFoundError")
         /\ files.schema = "malformed" =>
              (exc = "SchemaInvalidJson" /\ handler = "ValueError")
         /\ files.schema = "unreadable" =>
              (exc = "PermissionError" /\ handler = "Exception")
         /\ (files.schema = "json" /\ conf.kind # "number") =>
              (exc = "NoTrainingSection" /\ handler = "ValueError")
         /\ (files.schema = "json" /\ conf.kind = "number") =>
              (exc = "NotIterableTypeError" /\ handler = "Exception")

C16_Witness ==
  /\ Exited
  /\ ConfigLoaded /\ ~conf.has
  /\ files.schema = "json"
  /\ exc = "NoTrainingSection"
  /\ handler = "ValueError"
  /\ exitCode = 1

(***************************************************************************)
(* Properties of save_onnx_model.                                          *)
(***************************************************************************)
HasFirstStage(m) == m.hasSteps /\ m.nsteps > 0

SharedColumns == detector.reference_data.cols \cap detector.current_data.cols

\* C18: the mapping detect_drift returns has one score for each column that
\* is in both the reference and the current dataset and none for any other
\* column, and a call of detect_drift changes neither dataset.
C18_ScoresExactlySharedColumns ==
  /\ [](driftCall.op = "detect_drift" /\ driftCall.out = "returned" =>
          /\ DOMAIN driftCall.results = SharedColumns
          /\ \A c \in SharedColumns : driftCall.results[c] \in {"zero", "positive"})
  /\ [][driftCall'.op = "detect_drift" => detector' = detector]_vars

C18_Witness ==
  /\ driftCall.op = "detect_drift"
  /\ driftCall.out = "returned"
  /\ DOMAIN driftCall.results = {"pressure"}
  /\ detector.reference_data.cols = DriftColumns
  /\ detector.current_data.cols = {"pressure"}

\* C19: on two identical datasets detect_drift returns the score 0, the
\* least value of the statistic, for every shared column.
C19_IdenticalDatasetsScoreZero ==
  (/\ driftCall.op = "detect_drift"
   /\ detector.reference_data = detector.current_data) =>
    /\ driftCall.out = "returned"
    /\ \A c \in DOMAIN driftCall.results : driftCall.results[c] = "zero"

(***************************************************************************)
(* Properties of MetricsCalculator.                                        *)
(***************************************************************************)
\* C20: a MetricsCalculator constructed with label vectors of different
\* lengths raises the length-mismatch ValueError and no calculator comes
\* to exist, so every calculate_* and get_metrics call works on vectors of
\* equal length; a result of get_metrics has exactly the entries accuracy,
\* precision, recall and f1_score.
C20_EqualLengthsAndFourMetrics ==
  /\ (metricsCall.op = "__init__" /\
      Len(metricsCall.y_true) # Len(metricsCall.y_pred)) =>
       /\ metricsCall.out = "LengthMismatch"
       /\ ExcType(metricsCall.out) = "ValueError"
       /\ ~calc.made
  /\ calc.made => Len(calc.y_true) = Len(calc.y_pred)
  /\ metricsCall.op \notin {"none", "__init__"} =>
       /\ Len(metricsCall.y_true) = Len(metricsCall.y_pred)
       /\ metricsCall.out # "InconsistentSamples"
  /\ (metricsCall.op = "get_metrics" /\ metricsCall.out = "returned") =>
       DOMAIN metricsCall.result = MetricNames

C20_Witness ==
  /\ metricsCall.op = "__init__"
  /\ Len(metricsCall.y_true) = 2
  /\ Len(metricsCall.y_pred) = 1
  /\ metricsCall.out = "LengthMismatch"
  /\ ~calc.made

(***************************************************************************)
(* Further properties of ModelTrainer.                                     *)
(***************************************************************************)
RunOrder == <<"load_data", "preprocess_data", "train_model", "save_model">>

\* C26: run enters load_data, preprocess_data, train_model, save_model in
\* this order, each at most once and each only when the one before it
\* returned; a missing data file is reported before the configuration keys
\* are looked at; and a run that returns has saved the pipeline object that
\* its own preprocess_data created.
C26_RunOrderAndOwnPipeline ==
  tr.op = "run" =>
    /\ \E n \in 1..4 :
         /\ tr.trace = SubSeq(RunOrder, 1, n)
         /\ n < 4 => tr.out # "returned"
    /\ ~tr.dataExists =>
         (tr.out = "TrainingDataMissing" /\ tr.trace = <<"load_data">>)
    /\ tr.out = "returned" =>
         /\ trainer.pipeline = Len(tr.pre.objs) + 1
         /\ trainer.model = trainer.pipeline
         /\ trainer.files[tr.path].exists
         /\ trainer.files[tr.path].obj = trainer.pipeline

C26_Witness ==
  /\ tr.op = "run"
  /\ tr.out = "returned"
  /\ tr.pre.model # 0
  /\ trainer.files[tr.path].obj # tr.pre.model

MainOrder ==
  <<"load_config", "load_schema", "training_section", "load_data",
    "preprocess", "train", "report">>

\* what the run has created on disk: directories, model files, reports
NothingCreated ==
  /\ trainer.dirs = tr.pre.dirs
  /\ trainer.files = tr.pre.files
  /\ ~ModelWritten
  /\ reports = {}

\* C28: main creates the output directory, the model file and the report
\* only in steps that come after load_config, load_schema, the 'training'
\* test, the data load and the Preprocessor's fit_transform have all
\* returned; a run in which one of these raised ends with exit status 1 and
\* has created no directory and no file.
C28_OutputsOnlyAfterChecks ==
  /\ ~Entered("train") => NothingCreated
  /\ Entered("train") => SubSeq(steps, 1, 6) = SubSeq(MainOrder, 1, 6)
  /\ (Exited /\ ~Entered("train")) => (exitCode = 1 /\ exc # "none")

C28_Witness ==
  /\ Exited
  /\ steps = SubSeq(MainOrder, 1, 5)
  /\ exc = "TransformError"
  /\ exitCode = 1
  /\ args.output = <<"models", "current">>
  /\ trainer.dirs = {}

\* C29: main reads the config file, then the schema file, then tests for
\* 'training', then loads the data, and the exception it ends with is the
\* first failure in this order: the one of the config file whatever the
\* schema file is, and the one of the schema file whatever the
\* configuration holds.
C29_FirstFailureInOrder ==
  /\ \E n \in 0..7 : steps = SubSeq(MainOrder, 1, n)
  /\ Exited =>
       /\ files.config = "missing" =>
            (exc = "ConfigNotFound" /\ steps = SubSeq(MainOrder, 1, 1))
       /\ files.config \in {"malformed", "unreadable"} =>
            (exc \in {"ConfigInvalidJson", "PermissionError"}
             /\ steps = SubSeq(MainOrder, 1, 1))
       /\ (files.config = "json" /\ files.schema = "missing") =>
            (exc = "SchemaNotFound" /\ handler = "FileNotFoundError"
             /\ steps = SubSeq(MainOrder, 1, 2))
       /\ (files.config = "json"
           /\ files.schema \in {"malformed", "unreadable"}) =>
            (exc \in {"SchemaInvalidJson", "PermissionError"}
             /\ steps = SubSeq(MainOrder, 1, 2))
       /\ (files.config = "json" /\ files.schema = "json"
           /\ training_section(conf) # "returned") =>
            (exc = training_section(conf) /\ steps = SubSeq(MainOrder, 1, 3))

C29_Witness ==
  /\ Exited
  /\ files = [config |-> "json", schema |-> "missing"]
  /\ conf.kind = "object" /\ ~conf.has
  /\ exc = "SchemaNotFound"
  /\ handler = "FileNotFoundError"

C21_SaveReportNotTransactional ==
  [][ioCall'.op = "save_report" =>
       LET n == Len(ioCall'.entered)
       IN /\ n \in 1..3
          /\ ioCall'.entered = SubSeq(ReportNames, 1, n)
          /\ n < 3 => ioCall'.out # "returned"
          /\ \A i \in 1..3 :
               /\ (i < n \/ ioCall'.out = "returned") =>
                    reporter'.files[ReportNames[i]] = Written(ioCall'.v)
               /\ i > n =>
                    reporter'.files[ReportNames[i]] =
                      reporter.files[ReportNames[i]]
               /\ (i = n /\ ioCall'.out = "WriteError") =>
                    reporter'.files[ReportNames[i]] = Partial(ioCall'.v)
               /\ (i = n /\ ioCall'.out = "PermissionError") =>
                    reporter'.files[ReportNames[i]] =
                      reporter.files[ReportNames[i]]]_vars

C21_Witness ==
  /\ ioCall.op = "save_report"
  /\ ioCall.out = "WriteError"
  /\ ioCall.entered = SubSeq(ReportNames, 1, 2)
  /\ reporter.files["metrics.json"] = Written(ioCall.v)
  /\ reporter.files["shap_summary.html"] = Partial(ioCall.v)
  /\ ~reporter.files["drift_report.html"].exists

\* C22: a report file that has been written is never changed by a later
\* ReportGenerator operation on the same directory.
C22_ReportFilesWrittenOnce ==
  [][\A n \in ReportFiles :
       (reporter.files[n].exists /\ reporter.files[n].complete) =>
         reporter'.files[n] = reporter.files[n]]_vars

(***************************************************************************)
(* Properties of the functions that open a file.                           *)
(***************************************************************************)
\* C25: whenever load_config, load_schema, a ReportGenerator writer, the
\* summary writer or convert_model_to_onnx has returned or raised, every
\* handle it opened has been closed: the call closed as many handles as it
\* opened and the process holds none.
C25_HandlesClosedOnEveryExit ==
  /\ handles = 0
  /\ ioCall.opened = ioCall.closed

C25_Witness ==
  /\ ioCall.op = "load_config"
  /\ ioCall.out = "ConfigInvalidJson"
  /\ ioCall.opened = 1
  /\ ioCall.closed = 1
  /\ handles = 0

C24_OrderingLearnedAtFit ==
  /\ [](prep.made =>
          /\ prep.num = NamesOf(SelectSeq(prep.schema, IsNumeric))
          /\ prep.cat = NamesOf(SelectSeq(prep.schema, IsCategory)))
  /\ []((prepCall.op \in {"transform", "fit_transform"}
         /\ prepCall.out = "returned") =>
          \A r \in PrepRows :
            LET row == prepCall.X[r]
                data == prepCall.data
                cats == prep.learned.categories
                n == Len(prep.num)
                Cell(name) ==
                  CHOOSE v \in CellValues :
                    \E p \in DOMAIN data.cols :
                      data.cols[p] = name /\ data.vals[p][r] = v
            IN /\ Len(row) = n + IndicatorsBefore(cats, Len(prep.cat) + 1)
               /\ \A i \in 1..n :
                    row[i] = Standardize(Cell(prep.num[i]),
                                         prep.learned.stats[i])
               /\ \A j \in DOMAIN prep.cat : \A k \in DOMAIN cats[j] :
                    /\ k > 1 => cats[j][k - 1] < cats[j][k]
                    /\ row[n + IndicatorsBefore(cats, j) + k] =
                         IF Cell(prep.cat[j]) = cats[j][k] THEN 1 ELSE 0)
  /\ [][prepCall'.op = "transform" => prep' = prep]_vars

C24_Witness ==
  /\ prepCall.op = "transform"
  /\ prepCall.out = "returned"
  /\ prep.num = <<"temperature">>
  /\ prep.cat = <<"product_type">>
  /\ prepCall.data.cols = <<"product_type", "temperature">>
  /\ Len(prep.learned.categories[1]) = 2
  /\ prepCall.data.vals[1] # prepCall.data.vals[2]

====
